---- MODULE Spec2Model ----
(***************************************************************************)
(* Verification model of the IoT middleware core: the V5008 binary adapter, *)
(* the Shadow Store (StateCache) and the Reconciliation Engine             *)
(* (UnifyNormalizer).                                                      *)
(*                                                                         *)
(* A normalize call is an async JavaScript function.  It runs from one     *)
(* `await` to the next without interruption; at an `await` other calls may *)
(* run.  Each call therefore has a position (pc):                          *)
(*   idle      no call in this slot                                        *)
(*   afterGet  suspended at `await this.stateCache.get(...)`; the read of  *)
(*             the cache has already happened (get's body is synchronous)  *)
(*   afterSet  suspended at `await this.stateCache.set(...)`; the write    *)
(*             has already happened                                        *)
(*   settled   the promise normalize returned is fulfilled or rejected     *)
(* Timestamps (ts) are copied through unchanged by every operation and are *)
(* left out of messages and events.                                        *)
(***************************************************************************)
EXTENDS Integers, Sequences, FiniteSets, TLC

VARIABLES
  cache,     \* StateCache.cache : key string -> Map<uPos, TagData>
  calls,     \* call slot -> the normalize call running in it
  seeded,    \* history: keys for which a diff-path call has completed
  lastDiff,  \* history: key -> item list of the last completed diff-path
             \*          call, while no other call has named the key since
             \*          (kept where every call is awaited)
  decoded,   \* what the adapter returned to the message handler that runs:
             \* the topic, the payload and the parsed data (None for null)
  resolved,  \* the last `new ParserRegistry().getParser(topic)`: the topic
             \* and how the statement completed (None before any)
  held,      \* the Map a caller passed to StateCache.set and still holds:
             \* its entries then and now, and whether the cache stores the
             \* very same object (None while no caller holds one)
  bus,       \* the message handler of the application: the parsed messages
             \* of the mqtt.message events in arrival order, the arrival
             \* each running handler serves, and the data.normalized
             \* emissions in the order they were made
  obtained,  \* the Map a caller obtained from StateCache.get and still holds:
             \* its entries when get returned and now, and whether it is
             \* still the object the cache stores (None while no caller
             \* holds one)
  storage    \* StorageService: isStarted, the last array of events handed to
             \* handleNormalizedData, and the statements it sent to the
             \* database for it, in order

\* the state of the collaborators of the parse-and-normalize pipeline
collaborators == <<resolved, held, storage, bus, obtained>>

vars == <<cache, calls, seeded, lastDiff, decoded, resolved, held, storage, bus,
         obtained>>

-----------------------------------------------------------------------------
(* Bounds of the model *)

\* Largest number of tag items in one inbound message.
MaxItems == 2

\* Largest number of module blocks in one patch-path message.
MaxModules == 2

\* Largest number of tag items in a message of a call that overlaps another.
MaxOverlapItems == 1

\* Largest number of records (sensor slots, module records, tag records) in a
\* binary frame handed to the adapter.
MaxRecords == 2

-----------------------------------------------------------------------------
(* Optional values: <<>> is undefined/null, <<v>> is the value v *)

None == <<>>
Some(v) == <<v>>
IsSome(o) == Len(o) = 1
Val(o) == o[1]

SeqsUpTo(S, n) == UNION {[1..k -> S] : k \in 0..n}

-----------------------------------------------------------------------------
(* JavaScript Map<uPos, TagData>: a sequence of entries in insertion order, *)
(* no uPos twice.                                                          *)

MapKeys(m) == {m[i].uPos : i \in 1..Len(m)}
MapHas(m, k) == k \in MapKeys(m)
MapGet(m, k) == (CHOOSE i \in 1..Len(m) : m[i].uPos = k)
MapTag(m, k) == m[MapGet(m, k)].tag
\* Map.prototype.set: an existing key keeps its place, a new key goes last
MapSet(m, k, t) ==
  IF MapHas(m, k)
  THEN [i \in 1..Len(m) |-> IF m[i].uPos = k THEN [uPos |-> k, tag |-> t] ELSE m[i]]
  ELSE Append(m, [uPos |-> k, tag |-> t])
\* Map.prototype.delete
MapDelete(m, k) == SelectSeq(m, LAMBDA e : e.uPos # k)

-----------------------------------------------------------------------------
(* Input domains *)

DeviceIds == {"d1"}

\* Module 1 is a rack with the tag positions 3 and 5, module 2 one with position 3
ModAddrs == {1, 2}
UPosOf(modAddr) == IF modAddr = 1 THEN {3, 5} ELSE {3}

\* The tags seen on a module by the snapshot-origin protocol
TagIdsOf(modAddr) == IF modAddr = 1 THEN {"A", "B"} ELSE {"A"}

\* TagData stored in a shadow: { tagId, alarmStatus }
TagData(tagId) == [tagId |-> tagId, alarmStatus |-> IF tagId = "A" THEN 0 ELSE 1]

\* The module serial a device reports for a module address
ModIdOf(modAddr) == ToString(1000 + modAddr)

\* Items of a V5008 LabelState message: { uPos, alarmStatus, tagId }
DiffItems(modAddr) ==
  {[uPos |-> u, tagId |-> t, alarmStatus |-> TagData(t).alarmStatus] :
     u \in UPosOf(modAddr), t \in TagIdsOf(modAddr)}

Actions == {"attached", "detached", "null"}

\* Items of a V6800 LABEL_STATE module block: { uPos, alarmStatus, tagId, action }
PatchItems(modAddr) ==
  {[uPos |-> u, tagId |-> "A", alarmStatus |-> TagData("A").alarmStatus, action |-> a] :
     u \in UPosOf(modAddr), a \in Actions}

\* The parsed-data object handed to normalize (the intermediate message).
\* A field the object does not have is None (optional fields) or "" (strings).
IM(deviceType, messageType, deviceId, modAddr, items, data) ==
  [isNull |-> FALSE, deviceType |-> deviceType, messageType |-> messageType,
   deviceId |-> deviceId, modAddr |-> modAddr, modId |-> ModIdOf(modAddr),
   items |-> items, data |-> data, result |-> "", doorState |-> "",
   originalReq |-> <<>>, colorMap |-> None, modules |-> <<>>, meta |-> None,
   messageId |-> "", uTotal |-> 0, onlineCount |-> 0, sensors |-> None,
   info |-> None, rawMessageType |-> "", device |-> None]

NullIM == [IM("", "", "", 0, None, None) EXCEPT !.isNull = TRUE]

\* V5008 LabelState messages; items = None is a message without its item list
DiffMsgsOf(d, m) ==
  {IM("V5008", "LabelState", d, m, items, None) :
     items \in {None} \cup {Some(l) : l \in SeqsUpTo(DiffItems(m), MaxItems)}}

DiffMsgs == UNION {DiffMsgsOf(d, m) : d \in DeviceIds, m \in ModAddrs}

\* A module block of a V6800 LABEL_STATE message
Block(modAddr, items) == [modAddr |-> modAddr, modId |-> ModIdOf(modAddr), items |-> items]

BlocksOf(m) ==
  {Block(m, items) :
     items \in {None} \cup {Some(l) : l \in SeqsUpTo(PatchItems(m), MaxItems)}}

Blocks == UNION {BlocksOf(m) : m \in ModAddrs}

\* The size of a block: the number of its items, at least one
BlockSize(b) == IF IsSome(b.items) /\ Len(Val(b.items)) > 1 THEN Len(Val(b.items)) ELSE 1

\* The data arrays of at most n blocks whose sizes add up to at most `size`
RECURSIVE DataUpTo(_, _)
DataUpTo(n, size) ==
  IF n = 0 \/ size = 0 THEN {<<>>}
  ELSE {<<>>} \cup
       UNION {{<<b>> \o rest : rest \in DataUpTo(n - 1, size - BlockSize(b))} :
                b \in {x \in Blocks : BlockSize(x) <= size}}

\* V6800 LABEL_STATE messages of at most MaxModules blocks and MaxItems items
PatchData == DataUpTo(MaxModules, MaxItems)

PatchMsgs ==
  {IM("V6800", "LABEL_STATE", d, 0, None, data) :
     d \in DeviceIds, data \in {None} \cup {Some(x) : x \in PatchData}}

-----------------------------------------------------------------------------
(* Unified events *)

Identity(im, modAddr, sensorAddr) ==
  [deviceId |-> im.deviceId, deviceType |-> im.deviceType,
   modAddr |-> modAddr, sensorAddr |-> sensorAddr]

RfidEvent(im, modAddr, action, uPos, tagId, alarmStatus) ==
  [identity |-> Identity(im, modAddr, uPos),
   type |-> "SYS_RFID_EVENT",
   payload |-> [key |-> "rfid_event",
                value |-> [action |-> action, tagId |-> tagId, uPos |-> uPos,
                           alarmStatus |-> alarmStatus]]]

\* items: Array.from(map.entries()).map(([uPos, tag]) => ({uPos, tagId, alarmStatus}))
SnapshotEvent(im, modAddr, modId, map) ==
  [identity |-> Identity(im, modAddr, 0),
   type |-> "SYS_RFID_SNAPSHOT",
   payload |-> [key |-> "rfid_snapshot",
                value |-> [modId |-> modId,
                           items |-> [i \in 1..Len(map) |->
                                        [uPos |-> map[i].uPos,
                                         tagId |-> map[i].tag.tagId,
                                         alarmStatus |-> map[i].tag.alarmStatus]]]]]

RequireSyncEvent(im, modAddr) ==
  [identity |-> Identity(im, modAddr, 0),
   type |-> "SYS_REQUIRE_SYNC",
   payload |-> [key |-> "require_sync", value |-> [reason |-> "cache_miss"]]]

-----------------------------------------------------------------------------
(* StateCache *)

\* a key that leaves the module address out
createKey_DeviceOnly(deviceId, modAddr) == deviceId

\* _createKey: `${deviceId}:${modAddr}`
createKey(deviceId, modAddr) == deviceId \o ":" \o ToString(modAddr)

\* get that takes an empty Map for a missing one
StateCache_get_EmptyIsMiss(c, deviceId, modAddr) ==
  LET key == createKey(deviceId, modAddr)
  IN IF key \in DOMAIN c /\ c[key] # <<>> THEN Some(c[key]) ELSE None

\* get: `return cached || null` (a Map is truthy, also when it is empty)
StateCache_get(c, deviceId, modAddr) ==
  LET key == createKey(deviceId, modAddr)
  IN IF key \in DOMAIN c THEN Some(c[key]) ELSE None

\* set that stores nothing
StateCache_set_Dropped(c, deviceId, modAddr, tagDataMap) == c

\* the Map object passed in, stored as it is
NewMap_SameObject(tagDataMap) == [object |-> "argument", entries |-> tagDataMap]

\* new Map(tagDataMap): another Map object, filled with the entries of tagDataMap
NewMap(tagDataMap) == [object |-> "new", entries |-> tagDataMap]

\* set: this.cache.set(key, new Map(tagDataMap)); the normalizer always passes a Map
StateCache_set(c, deviceId, modAddr, tagDataMap) ==
  LET key == createKey(deviceId, modAddr)
  IN [k \in DOMAIN c \cup {key} |->
        IF k = key THEN NewMap(tagDataMap).entries ELSE c[k]]

\* clear: this.cache.delete(key)
StateCache_clear(c, deviceId, modAddr) ==
  [k \in DOMAIN c \ {createKey(deviceId, modAddr)} |-> c[k]]

\* clearAll: this.cache.clear()
StateCache_clearAll(c) == <<>>

-----------------------------------------------------------------------------
(* A normalize call *)

CallSlots == {1, 2}

\* A slot without a call
Idle ==
  [pc |-> "idle", msg |-> NullIM, blk |-> 0, got |-> None, work |-> <<>>,
   results |-> <<>>, outcome |-> "none",
   pre |-> <<>>, repeat |-> FALSE, clash |-> FALSE, overlapped |-> FALSE,
   frame |-> <<>>]

\* The promise of the call is fulfilled with the array `results`
Fulfil(call, results) ==
  [call EXCEPT !.pc = "settled", !.outcome = "fulfilled", !.results = results,
               !.blk = 0, !.got = None, !.work = <<>>]

\* An exception leaves _processV5008Rfid / _processV6800Rfid.  These are async
\* functions, so their promise is rejected.  _processV5008 and _processV6800
\* `return await` it and reject too.  normalize hands the promise over with
\* `return this._processV5008(parsedData)`, without await: its try block has
\* already been left, the catch clause never runs, and the promise normalize
\* returned is rejected.
Throw(call) ==
  [call EXCEPT !.pc = "settled", !.outcome = "rejected", !.results = <<>>,
               !.blk = 0, !.got = None, !.work = <<>>]

\* The result of one synchronous run of a call: the call and the cache after it
Step(call, c) == [call |-> call, cache |-> c]

(* _processV5008Rfid: diff path *)

\* up to `await this.stateCache.get(identity.deviceId, modAddr)`
V5008Rfid_begin(call, c) ==
  Step([call EXCEPT !.pc = "afterGet",
                    !.got = StateCache_get(c, call.msg.deviceId, call.msg.modAddr)],
       c)

\* currTags: for (const item of items) currTags.set(item.uPos, {tagId, alarmStatus})
RECURSIVE CurrTags(_, _)
CurrTags(items, map) ==
  IF items = <<>> THEN map
  ELSE CurrTags(Tail(items),
                MapSet(map, Head(items).uPos,
                       [tagId |-> Head(items).tagId,
                        alarmStatus |-> Head(items).alarmStatus]))

\* the loop without its `if (!other.has(uPos))`
DiffEvents_Unfiltered(im, action, from, other) ==
  [i \in 1..Len(from) |->
     RfidEvent(im, im.modAddr, action, from[i].uPos, from[i].tag.tagId,
               from[i].tag.alarmStatus)]

\* for ([uPos, tagData] of from.entries()) if (!other.has(uPos)) events.push(...)
DiffEvents(im, action, from, other) ==
  LET kept == SelectSeq(from, LAMBDA e : ~MapHas(other, e.uPos))
  IN [i \in 1..Len(kept) |->
        RfidEvent(im, im.modAddr, action, kept[i].uPos, kept[i].tag.tagId,
                  kept[i].tag.alarmStatus)]

\* the diff path with the inbound items merged into the previous shadow
V5008Rfid_afterGet_Merged(call, c) ==
  LET im == call.msg
      prevTags == IF IsSome(call.got) THEN Val(call.got) ELSE <<>>
  IN IF ~IsSome(im.items)
     THEN Step(Throw(call), c)
     ELSE LET currTags == CurrTags(Val(im.items), prevTags)
              events == DiffEvents(im, "detached", prevTags, currTags)
                        \o DiffEvents(im, "attached", currTags, prevTags)
          IN Step([call EXCEPT !.pc = "afterSet", !.got = None,
                               !.work = currTags, !.results = events],
                  StateCache_set(c, im.deviceId, im.modAddr, currTags))

\* from the resumption after get up to `await this.stateCache.set(...)`
V5008Rfid_afterGet(call, c) ==
  LET im == call.msg
      prevTags == IF IsSome(call.got) THEN Val(call.got) ELSE <<>>
  IN IF ~IsSome(im.items)
     THEN Step(Throw(call), c)     \* for (const item of undefined): TypeError
     ELSE LET currTags == CurrTags(Val(im.items), <<>>)
              events == DiffEvents(im, "detached", prevTags, currTags)
                        \o DiffEvents(im, "attached", currTags, prevTags)
          IN Step([call EXCEPT !.pc = "afterSet", !.got = None,
                               !.work = currTags, !.results = events],
                  StateCache_set(c, im.deviceId, im.modAddr, currTags))

\* from the resumption after set to `return events`
V5008Rfid_afterSet(call, c) ==
  Step(Fulfil(call, Append(call.results,
                           SnapshotEvent(call.msg, call.msg.modAddr, call.msg.modId,
                                         call.work))),
       c)

(* _processV6800Rfid: patch path *)

\* The head of `for (const moduleData of data)` for block number i, up to
\* `await this.stateCache.get(identity.deviceId, modAddr)` or `return results`
V6800Rfid_loop(call, c, i) ==
  LET data == Val(call.msg.data)
  IN IF i > Len(data)
     THEN Step(Fulfil(call, call.results), c)
     ELSE Step([call EXCEPT !.pc = "afterGet", !.blk = i, !.work = <<>>,
                            !.got = StateCache_get(c, call.msg.deviceId, data[i].modAddr)],
               c)

V6800Rfid_begin(call, c) ==
  IF ~IsSome(call.msg.data)
  THEN Step(Throw(call), c)        \* for (const moduleData of undefined): TypeError
  ELSE V6800Rfid_loop(call, c, 1)

\* results.push({... type: 'SYS_RFID_EVENT' ... action: item.action ...}) per item
PassThrough_ActionsOnly(im, modAddr, items) ==
  LET acted == SelectSeq(items, LAMBDA item : item.action # "null")
  IN [i \in 1..Len(acted) |->
        RfidEvent(im, modAddr, acted[i].action, acted[i].uPos, acted[i].tagId,
                  acted[i].alarmStatus)]

PassThrough(im, modAddr, items) ==
  [i \in 1..Len(items) |->
     RfidEvent(im, modAddr, items[i].action, items[i].uPos, items[i].tagId,
               items[i].alarmStatus)]

\* the patch loop without its `else if (item.action === 'detached')` branch
RECURSIVE Patch_AttachOnly(_, _)
Patch_AttachOnly(items, map) ==
  IF items = <<>> THEN map
  ELSE LET item == Head(items)
       IN Patch_AttachOnly(Tail(items),
                           IF item.action = "attached"
                           THEN MapSet(map, item.uPos,
                                       [tagId |-> item.tagId,
                                        alarmStatus |-> item.alarmStatus])
                           ELSE map)

\* a patch loop in which attaching to an occupied position frees it
RECURSIVE Patch_Toggle(_, _)
Patch_Toggle(items, map) ==
  IF items = <<>> THEN map
  ELSE LET item == Head(items)
       IN Patch_Toggle(Tail(items),
                       IF item.action = "attached" /\ ~MapHas(map, item.uPos)
                       THEN MapSet(map, item.uPos,
                                   [tagId |-> item.tagId,
                                    alarmStatus |-> item.alarmStatus])
                       ELSE IF item.action \in {"attached", "detached"}
                       THEN MapDelete(map, item.uPos)
                       ELSE map)

\* the patch loop over the items of a block, applied to the working copy
RECURSIVE Patch(_, _)
Patch(items, map) ==
  IF items = <<>> THEN map
  ELSE LET item == Head(items)
       IN Patch(Tail(items),
                IF item.action = "attached"
                THEN MapSet(map, item.uPos,
                            [tagId |-> item.tagId, alarmStatus |-> item.alarmStatus])
                ELSE IF item.action = "detached"
                THEN MapDelete(map, item.uPos)
                ELSE map)

\* the patch path with the diff path's `|| new Map()`: a miss is patched as an
\* empty shadow
V6800Rfid_afterGet_MissPatched(call, c) ==
  LET im == call.msg
      block == Val(im.data)[call.blk]
  IN IF ~IsSome(block.items)
     THEN Step(Throw(call), c)
     ELSE LET items == Val(block.items)
              updatedShadow == Patch(items, IF IsSome(call.got) THEN Val(call.got) ELSE <<>>)
          IN Step([call EXCEPT !.pc = "afterSet", !.got = None, !.work = updatedShadow,
                               !.results = call.results
                                           \o PassThrough(im, block.modAddr, items)],
                  StateCache_set(c, im.deviceId, block.modAddr, updatedShadow))

\* from the resumption after get: the cache-miss branch runs on into the next
\* block (`continue`), the patch branch runs up to `await this.stateCache.set(...)`
\* const updatedShadow = new Map(currentShadow): the patch works on another
\* Map object, filled with the entries of the Map that get returned
WorkingCopy_SameObject(currentShadow) == NewMap_SameObject(currentShadow)

WorkingCopy(currentShadow) == NewMap(currentShadow)

V6800Rfid_afterGet(call, c) ==
  LET im == call.msg
      block == Val(im.data)[call.blk]
  IN IF ~IsSome(block.items)
     THEN Step(Throw(call), c)     \* for (const item of undefined): TypeError
     ELSE LET items == Val(block.items)
              passed == call.results \o PassThrough(im, block.modAddr, items)
          IN IF ~IsSome(call.got)
             THEN V6800Rfid_loop(
                    [call EXCEPT !.results =
                                   Append(passed, RequireSyncEvent(im, block.modAddr))],
                    c, call.blk + 1)
             ELSE LET updatedShadow == Patch(items, WorkingCopy(Val(call.got)).entries)
                  IN Step([call EXCEPT !.pc = "afterSet", !.got = None,
                                       !.work = updatedShadow, !.results = passed],
                          StateCache_set(c, im.deviceId, block.modAddr, updatedShadow))

\* from the resumption after set: the snapshot, then the next block
V6800Rfid_afterSet(call, c) ==
  LET im == call.msg
      block == Val(im.data)[call.blk]
  IN V6800Rfid_loop(
       [call EXCEPT !.results =
                      Append(call.results,
                             SnapshotEvent(im, block.modAddr, block.modId, call.work))],
       c, call.blk + 1)

-----------------------------------------------------------------------------
(* Single-event processors.  A scalar payload value v is written [scalar |-> v] *)
(* so that every payload value is a record.                                    *)

\* _createResponseObject
createResponseObject(im) ==
  <<[identity |-> Identity(im, 0, 0),
     type |-> "SYS_STATE_CHANGE",
     payload |-> [key |-> "operation_result",
                  value |-> [scalar |-> IF im.result = "Success" THEN 1 ELSE 0],
                  raw |-> [result |-> im.result, originalReq |-> im.originalReq]]]>>

\* _createDoorStateObject
createDoorStateObject(im) ==
  <<[identity |-> Identity(im, im.modAddr, 0),
     type |-> "SYS_STATE_CHANGE",
     payload |-> [key |-> "door_state",
                  value |-> [scalar |-> IF im.doorState = "01" THEN 1 ELSE 0],
                  raw |-> [modId |-> im.modId, doorState |-> im.doorState]]]>>

\* _processHeartbeat; voltage and current are in hundredths
processHeartbeat(im) ==
  IF ~IsSome(im.meta) THEN <<>>
  ELSE LET meta == Val(im.meta)
           raw == [mainPower |-> meta.mainPower, backupPower |-> meta.backupPower]
           telemetry(key, v) ==
             IF IsSome(v)
             THEN <<[identity |-> Identity(im, 0, 0), type |-> "SYS_TELEMETRY",
                     payload |-> [key |-> key, value |-> [scalar |-> Val(v)],
                                  raw |-> raw]]>>
             ELSE <<>>
       IN telemetry("voltage", meta.voltage) \o telemetry("current", meta.current)
          \o <<[identity |-> Identity(im, 0, 0), type |-> "SYS_LIFECYCLE",
                payload |-> [key |-> "device_status",
                             value |-> [scalar |-> IF meta.mainPower THEN "online"
                                                   ELSE "backup_power"],
                             raw |-> raw]]>>

\* JavaScript values of a sensor reading: null, undefined, or a number, kept
\* in hundredths (the decoder only produces whole numbers of hundredths)
JsNull == [js |-> "null"]
JsUndefined == [js |-> "undefined"]
JsNumber(hundredths) == [js |-> "number", hundredths |-> hundredths]

\* sensor[key]: undefined when the object has no such property
Field(object, key) == IF key \in DOMAIN object THEN object[key] ELSE JsUndefined

TelemetryEvent(im, sensorAddr, key, value) ==
  [identity |-> Identity(im, im.modAddr, sensorAddr),
   type |-> "SYS_TELEMETRY",
   payload |-> [key |-> key, value |-> value, raw |-> [modId |-> im.modId]]]

\* _flattenTelemetry(parsedData, identity, tempKey, humKey): the loop over the
\* sensors from number i on
RECURSIVE FlattenSensors(_, _, _, _, _)
FlattenSensors(im, sensors, i, tempKey, humKey) ==
  IF i > Len(sensors) THEN <<>>
  ELSE LET sensor == sensors[i]
           temperature == Field(sensor, tempKey)
           humidity == Field(sensor, humKey)
       IN (IF temperature = JsNull /\ humidity = JsNull THEN <<>>
           ELSE (IF temperature # JsNull
                 THEN <<TelemetryEvent(im, sensor.sensorAddr, "temperature", temperature)>>
                 ELSE <<>>)
                \o (IF humidity # JsNull
                    THEN <<TelemetryEvent(im, sensor.sensorAddr, "humidity", humidity)>>
                    ELSE <<>>))
          \o FlattenSensors(im, sensors, i + 1, tempKey, humKey)

flattenTelemetry(im, tempKey, humKey) ==
  IF ~IsSome(im.sensors) THEN <<>>      \* !Array.isArray(sensors)
  ELSE FlattenSensors(im, Val(im.sensors), 1, tempKey, humKey)

\* _flattenNoiseTelemetry(parsedData, identity)
flattenNoiseTelemetry(im) ==
  IF ~IsSome(im.sensors) THEN <<>>
  ELSE LET sensors == Val(im.sensors)
           kept == SelectSeq(sensors, LAMBDA sensor : Field(sensor, "noise") # JsNull)
       IN [i \in 1..Len(kept) |->
             TelemetryEvent(im, kept[i].sensorAddr, "noise", Field(kept[i], "noise"))]

\* _splitV6800Init(parsedData, identity)
splitV6800Init(im) ==
  (IF IsSome(im.device)
   THEN <<[identity |-> Identity(im, 0, 0), type |-> "SYS_DEVICE_INFO",
           payload |-> [key |-> "device_info",
                        value |-> [ip |-> Val(im.device).ip, mac |-> Val(im.device).mac]]]>>
   ELSE <<>>)
  \o [i \in 1..Len(im.modules) |->
        [identity |-> Identity(im, im.modules[i].modAddr, 0), type |-> "SYS_DEVICE_INFO",
         payload |-> [key |-> "module_info",
                      value |-> [modId |-> im.modules[i].modId,
                                 uTotal |-> im.modules[i].uTotal,
                                 fwVer |-> im.modules[i].fwVer]]]]

-----------------------------------------------------------------------------
(* normalize and its dispatch, up to the first await of the call *)

\* _processV5008: switch (messageType)
processV5008(call, c) ==
  LET im == call.msg
  IN CASE im.messageType = "OpeAck" ->
            IF im.result # "" THEN Step(Fulfil(call, createResponseObject(im)), c)
            ELSE IF im.doorState # "" THEN Step(Fulfil(call, createDoorStateObject(im)), c)
            ELSE Step(Fulfil(call, <<>>), c)
       [] im.messageType = "LabelState" -> V5008Rfid_begin(call, c)
       [] im.messageType = "TemHum" ->
            Step(Fulfil(call, flattenTelemetry(im, "temperature", "humidity")), c)
       [] im.messageType = "Noise" -> Step(Fulfil(call, flattenNoiseTelemetry(im)), c)
       [] im.messageType \in {"HeartBeat", "HEARTBEAT"} ->
            Step(Fulfil(call, processHeartbeat(im)), c)
       [] OTHER -> Step(Fulfil(call, <<>>), c)

\* _processV6800: switch (messageType)
processV6800(call, c) ==
  LET im == call.msg
  IN CASE im.messageType = "LABEL_STATE" -> V6800Rfid_begin(call, c)
       [] im.messageType = "TEM_HUM" ->
            Step(Fulfil(call, flattenTelemetry(im, "temperature", "humidity")), c)
       [] im.messageType = "INIT" -> Step(Fulfil(call, splitV6800Init(im)), c)
       [] im.messageType = "DOOR_STATE" -> Step(Fulfil(call, createDoorStateObject(im)), c)
       [] im.messageType = "OPE_ACK" -> Step(Fulfil(call, createResponseObject(im)), c)
       [] im.messageType = "HEARTBEAT" -> Step(Fulfil(call, processHeartbeat(im)), c)
       [] OTHER -> Step(Fulfil(call, <<>>), c)

\* normalize(parsedData), from the call to its first suspension
\* normalize that takes every message without a V6800 type for a V5008 one
normalize_Unchecked(call, c) ==
  LET im == call.msg
  IN IF im.isNull THEN Step(Fulfil(call, <<>>), c)
     ELSE IF im.deviceType = "V6800" THEN processV6800(call, c)
     ELSE processV5008(call, c)

normalize(call, c) ==
  LET im == call.msg
  IN IF im.isNull \/ im.deviceType = "" THEN Step(Fulfil(call, <<>>), c)
     ELSE IF im.deviceType = "V5008" THEN processV5008(call, c)
     ELSE IF im.deviceType = "V6800" THEN processV6800(call, c)
     ELSE Step(Fulfil(call, <<>>), c)

\* The continuation of a suspended call, up to its next suspension
resume(call, c) ==
  CASE call.pc = "afterGet" /\ call.msg.deviceType = "V5008" -> V5008Rfid_afterGet(call, c)
    [] call.pc = "afterSet" /\ call.msg.deviceType = "V5008" -> V5008Rfid_afterSet(call, c)
    [] call.pc = "afterGet" /\ call.msg.deviceType = "V6800" -> V6800Rfid_afterGet(call, c)
    [] call.pc = "afterSet" /\ call.msg.deviceType = "V6800" -> V6800Rfid_afterSet(call, c)

-----------------------------------------------------------------------------
(* V5008Parser: binary frames.  A frame is a sequence of bytes 0..255; the  *)
(* byte at JavaScript offset o is buf[o + 1].  A hex string is modelled by   *)
(* the bytes it spells, except the short strings the normalizer compares.    *)

HexDigits == <<"0", "1", "2", "3", "4", "5", "6", "7", "8", "9",
               "a", "b", "c", "d", "e", "f">>
HexDigitsUpper == <<"0", "1", "2", "3", "4", "5", "6", "7", "8", "9",
                    "A", "B", "C", "D", "E", "F">>

\* byte.toString(16).padStart(2, '0')
Hex2(b) == HexDigits[(b \div 16) + 1] \o HexDigits[(b % 16) + 1]

\* buffer.subarray(from, to).toString('hex').toUpperCase()
RECURSIVE HexUpper(_)
HexUpper(bytes) ==
  IF bytes = <<>> THEN ""
  ELSE HexDigitsUpper[(Head(bytes) \div 16) + 1] \o HexDigitsUpper[(Head(bytes) % 16) + 1]
       \o HexUpper(Tail(bytes))

\* buffer.readUInt8(offset) raises RangeError outside the buffer
readUInt8(buf, offset) == buf[offset + 1]

\* (value << 8) | byte on JavaScript's 32-bit signed integers
ShiftOr(value, byte) ==
  LET low == value % 16777216
  IN (IF low >= 8388608 THEN low - 16777216 ELSE low) * 256 + byte

\* readBigUIntBE(buffer, offset, 4): 0 when the four bytes do not fit
readBigUIntBE(buf, offset) ==
  IF offset + 4 > Len(buf) THEN 0
  ELSE ShiftOr(ShiftOr(ShiftOr(ShiftOr(0, readUInt8(buf, offset)),
                               readUInt8(buf, offset + 1)),
                       readUInt8(buf, offset + 2)),
               readUInt8(buf, offset + 3))

\* Number.prototype.toString(): the decimal numeral, with '-' below zero
NumberToString(n) == ToString(n)

\* buffer.readInt8(offset): the byte as a two's complement number
readInt8(buf, offset) ==
  IF buf[offset + 1] >= 128 THEN buf[offset + 1] - 256 ELSE buf[offset + 1]

\* parseSignedDecimal with the integer byte read by readUInt8
parseSignedDecimal_Unsigned(buf, offset) ==
  IF offset + 1 >= Len(buf) THEN JsNull
  ELSE LET intPart == readUInt8(buf, offset)
           fracPart == readUInt8(buf, offset + 1)
       IN IF intPart = 0 /\ fracPart = 0 THEN JsNull
          ELSE JsNumber(intPart * 100 + fracPart)

\* parseSignedDecimal(buffer, offset): Math.abs(intPart) + fracPart / 100.0,
\* negated when intPart < 0; null for the pair (0, 0) and past the buffer
parseSignedDecimal(buf, offset) ==
  IF offset + 1 >= Len(buf) THEN JsNull
  ELSE LET intPart == readInt8(buf, offset)
           fracPart == readUInt8(buf, offset + 1)
           value == (IF intPart < 0 THEN -intPart ELSE intPart) * 100 + fracPart
       IN IF intPart = 0 /\ fracPart = 0 THEN JsNull
          ELSE JsNumber(IF intPart < 0 THEN -value ELSE value)

\* the sensor slots of parseTemHum, from `offset`, i slots already read
RECURSIVE TemHumSensors(_, _, _)
TemHumSensors(buf, offset, i) ==
  IF i >= 6 \/ offset + 5 > Len(buf) - 4 THEN <<>>
  ELSE LET sensorAddr == readUInt8(buf, offset)
       IN <<IF sensorAddr >= 10 /\ sensorAddr <= 15
            THEN [sensorAddr |-> sensorAddr,
                  temp |-> parseSignedDecimal(buf, offset + 1),
                  hum |-> parseSignedDecimal(buf, offset + 3)]
            ELSE [sensorAddr |-> sensorAddr, temp |-> JsNull, hum |-> JsNull]>>
          \o TemHumSensors(buf, offset + 5, i + 1)

\* parseTemHum(buffer, result); a read outside the buffer raises (None)
parseTemHum(buf, result) ==
  IF Len(buf) < 4 THEN None
  ELSE Some([result EXCEPT
               !.messageId = NumberToString(readBigUIntBE(buf, Len(buf) - 4)),
               !.modAddr = readUInt8(buf, 0),
               !.modId = NumberToString(readBigUIntBE(buf, 1)),
               !.sensors = Some(TemHumSensors(buf, 5, 0))])

\* the sensor slots of parseNoise
RECURSIVE NoiseSensors(_, _, _)
NoiseSensors(buf, offset, i) ==
  IF i >= 3 \/ offset + 3 > Len(buf) - 4 THEN <<>>
  ELSE LET sensorAddr == readUInt8(buf, offset)
       IN <<IF sensorAddr >= 16 /\ sensorAddr <= 18
            THEN [sensorAddr |-> sensorAddr,
                  noise |-> parseSignedDecimal(buf, offset + 1)]
            ELSE [sensorAddr |-> sensorAddr, noise |-> JsNull]>>
          \o NoiseSensors(buf, offset + 3, i + 1)

\* parseNoise(buffer, result)
parseNoise(buf, result) ==
  IF Len(buf) < 4 THEN None
  ELSE Some([result EXCEPT
               !.messageId = NumberToString(readBigUIntBE(buf, Len(buf) - 4)),
               !.modAddr = readUInt8(buf, 0),
               !.modId = NumberToString(readBigUIntBE(buf, 1)),
               !.sensors = Some(NoiseSensors(buf, 5, 0))])

\* the tag records of parseLabelState, from `offset`, i records already read
RECURSIVE LabelItems(_, _, _, _)
LabelItems(buf, offset, i, onlineCount) ==
  IF i >= onlineCount \/ offset + 6 > Len(buf) - 4 THEN <<>>
  ELSE <<[uPos |-> readUInt8(buf, offset),
          alarmStatus |-> readUInt8(buf, offset + 1),
          tagId |-> HexUpper(SubSeq(buf, offset + 3, offset + 6))]>>
       \o LabelItems(buf, offset + 6, i + 1, onlineCount)

\* parseLabelState(buffer, result); a read outside the buffer raises (None)
parseLabelState(buf, result) ==
  IF Len(buf) < 8 THEN None
  ELSE Some([result EXCEPT
               !.messageId = NumberToString(readBigUIntBE(buf, Len(buf) - 4)),
               !.modAddr = readUInt8(buf, 0),
               !.modId = NumberToString(readBigUIntBE(buf, 1)),
               !.uTotal = readUInt8(buf, 6),
               !.onlineCount = readUInt8(buf, 7),
               !.items = Some(LabelItems(buf, 8, 0, readUInt8(buf, 7)))])

\* the module records of parseHeartbeat
RECURSIVE HeartbeatModules(_, _, _)
HeartbeatModules(buf, offset, i) ==
  IF i >= 10 \/ offset + 9 > Len(buf) - 4 THEN <<>>
  ELSE (IF readUInt8(buf, offset) >= 1 /\ readUInt8(buf, offset) <= 5
        THEN <<[modAddr |-> readUInt8(buf, offset),
                modId |-> NumberToString(readBigUIntBE(buf, offset + 1)),
                uTotal |-> readUInt8(buf, offset + 5)]>>
        ELSE <<>>)
       \o HeartbeatModules(buf, offset + 6, i + 1)

\* parseHeartbeat(buffer, result, messageId); voltage 12.5 and current 0.8 in
\* hundredths
parseHeartbeat(buf, result, messageId) ==
  Some([result EXCEPT
          !.messageId = messageId,
          !.modules = HeartbeatModules(buf, 1, 0),
          !.meta = Some([voltage |-> Some(1250), current |-> Some(80),
                         mainPower |-> TRUE, backupPower |-> FALSE])])

\* parseDoorState(buffer, result, messageId)
parseDoorState(buf, result, messageId) ==
  IF Len(buf) < 7 THEN None
  ELSE Some([result EXCEPT
               !.messageId = messageId,
               !.modAddr = readUInt8(buf, 1),
               !.modId = NumberToString(readBigUIntBE(buf, 2)),
               !.doorState = Hex2(readUInt8(buf, 6))])

\* the color bytes of parseAAResponse: while (offset < buffer.length - 4)
RECURSIVE ColorMap(_, _)
ColorMap(buf, offset) ==
  IF offset < Len(buf) - 4
  THEN <<readUInt8(buf, offset)>> \o ColorMap(buf, offset + 1)
  ELSE <<>>

\* parseAAResponse(buffer, result, messageId)
parseAAResponse(buf, result, messageId) ==
  IF Len(buf) < 6 THEN None
  ELSE LET reqLength == Len(buf) - 10
           originalReq == SubSeq(buf, 7, 6 + reqLength)
       IN Some([result EXCEPT
                  !.messageId = messageId,
                  !.result = IF readUInt8(buf, 5) = 161 THEN "Success" ELSE "Failure",
                  !.originalReq = originalReq,
                  !.colorMap = IF originalReq # <<>> /\ Head(originalReq) = 228
                               THEN Some(ColorMap(buf, 6 + reqLength))
                               ELSE None])

\* parseIpAddress(buffer, offset): the four bytes joined by '.'
parseIpAddress(buf, offset) ==
  IF offset + 3 >= Len(buf) THEN "0.0.0.0"
  ELSE ToString(readUInt8(buf, offset)) \o "." \o ToString(readUInt8(buf, offset + 1))
       \o "." \o ToString(readUInt8(buf, offset + 2))
       \o "." \o ToString(readUInt8(buf, offset + 3))

\* buffer.subarray(from, to): the bytes at offsets from .. to - 1 that exist
subarray(buf, from, to) ==
  SubSeq(buf, from + 1, IF to < Len(buf) THEN to ELSE Len(buf))

\* bytes.map(b => b.toString(16).padStart(2, '0')).join(':').toUpperCase()
RECURSIVE MacString(_)
MacString(bytes) ==
  IF bytes = <<>> THEN ""
  ELSE HexUpper(<<Head(bytes)>>)
       \o (IF Tail(bytes) = <<>> THEN "" ELSE ":" \o MacString(Tail(bytes)))

\* parseDeviceInfoResponse(buffer, result, messageId); the ASCII text of the
\* model is kept as its character codes (toString('ascii') clears the top bit)
parseDeviceInfoResponse(buf, result, messageId) ==
  LET model == subarray(buf, 2, 6)
  IN Some([result EXCEPT
             !.messageId = messageId,
             !.info = Some([model |-> [i \in 1..Len(model) |-> model[i] % 128],
                            fwVer |-> NumberToString(readBigUIntBE(buf, 6)),
                            ip |-> parseIpAddress(buf, 10),
                            mask |-> parseIpAddress(buf, 14),
                            gatewayIp |-> parseIpAddress(buf, 18),
                            mac |-> MacString(subarray(buf, 22, 28))])])

\* the module entries of parseModuleInfoResponse
RECURSIVE InfoModules(_, _)
InfoModules(buf, offset) ==
  IF offset + 5 <= Len(buf) - 4
  THEN <<[modAddr |-> readUInt8(buf, offset),
          fwVer |-> NumberToString(readBigUIntBE(buf, offset + 1))]>>
       \o InfoModules(buf, offset + 5)
  ELSE <<>>

\* parseModuleInfoResponse(buffer, result, messageId)
parseModuleInfoResponse(buf, result, messageId) ==
  Some([result EXCEPT !.messageId = messageId, !.modules = InfoModules(buf, 2)])

\* parseRfidEvent(buffer, result, messageId): parseLabelState without the header
parseRfidEvent(buf, result, messageId) == parseLabelState(subarray(buf, 1, Len(buf)), result)

\* parseOpeAck(buffer, result): switch (header)
parseOpeAck(buf, result) ==
  IF Len(buf) < 4 THEN None      \* readUInt8 at a negative offset raises
  ELSE LET header == readUInt8(buf, 0)
           messageId == NumberToString(readBigUIntBE(buf, Len(buf) - 4))
       IN CASE header \in {204, 203} -> parseHeartbeat(buf, result, messageId)
            [] header = 186 -> parseDoorState(buf, result, messageId)
            [] header = 187 -> parseRfidEvent(buf, result, messageId)
            [] header = 170 -> parseAAResponse(buf, result, messageId)
            [] header = 239 /\ readUInt8(buf, 1) = 1 ->
                 parseDeviceInfoResponse(buf, result, messageId)
            [] header = 239 /\ readUInt8(buf, 1) = 2 ->
                 parseModuleInfoResponse(buf, result, messageId)
            [] OTHER -> None

\* The message type parse derives from the leading byte, else the topic suffix
HeaderType(buf, topicSuffix) ==
  IF Len(buf) = 0 THEN topicSuffix
  ELSE CASE readUInt8(buf, 0) \in {204, 203} -> "HEARTBEAT"
         [] readUInt8(buf, 0) = 187 -> "LABEL_STATE"
         [] readUInt8(buf, 0) = 186 -> "DOOR_STATE"
         [] readUInt8(buf, 0) = 170 -> "OPE_ACK"
         [] OTHER -> topicSuffix

\* parse(topic, messageBuffer): Some(parsed data), or None for null.  The topic
\* is <<family, deviceId, suffix>>.
V5008Parser_parse(topic, buf) ==
  LET messageType == HeaderType(buf, topic[3])
      result == [IM("V5008", messageType, topic[2], 0, None, None) EXCEPT !.modId = ""]
  IN CASE messageType = "HEARTBEAT" -> parseOpeAck(buf, result)
       [] messageType = "LABEL_STATE" -> parseLabelState(buf, result)
       [] messageType = "DOOR_STATE" -> parseOpeAck(buf, result)
       [] messageType = "OPE_ACK" -> parseOpeAck(buf, result)
       [] messageType = "TemHum" -> parseTemHum(buf, result)
       [] messageType = "Noise" -> parseNoise(buf, result)
       [] OTHER -> None

-----------------------------------------------------------------------------
(* V6800Parser: JSON text.  A text is malformed or denotes an object; an     *)
(* object is a record whose DOMAIN is the set of the properties it has.      *)

\* JSON.parse(jsonString): Some(value), or None when it throws SyntaxError
JSON_parse(jsonString) ==
  IF jsonString.text = "object" THEN Some(jsonString.value) ELSE None

\* object[key] || other, for a property that holds a number: undefined and 0
\* are falsy
NumberOr(object, key, other) ==
  IF key \in DOMAIN object /\ object[key] # 0 THEN object[key] ELSE other

\* object[key] || other, for a property that holds a string: undefined and ''
\* are falsy
StringOr(object, key, other) ==
  IF key \in DOMAIN object /\ object[key] # "" THEN object[key] ELSE other

\* Boolean(object[key]) for a property that holds a number
Truthy(object, key) == key \in DOMAIN object /\ object[key] # 0

\* the elements a `for ... of` behind Array.isArray(object[key]) runs over
ArrayOf(object, key) == IF key \in DOMAIN object THEN object[key] ELSE <<>>

\* String.prototype.toUpperCase() on the topic suffixes received
toUpperCase(str) ==
  CASE str = "init" -> "INIT"
    [] str = "heartbeat" -> "HEARTBEAT"
    [] str = "Unknown" -> "UNKNOWN"
    [] str = "Noise" -> "NOISE"
    [] OTHER -> str          \* 'HEARTBEAT', 'LABEL_STATE', ...: no lower case letter

\* mapMessageType(topicSuffix): mapping[topicSuffix] || topicSuffix.toUpperCase()
mapMessageType(topicSuffix) ==
  CASE topicSuffix = "HeartBeat" -> "HEARTBEAT"
    [] topicSuffix = "LabelState" -> "LABEL_STATE"
    [] topicSuffix = "TemHum" -> "TEM_HUM"
    [] topicSuffix = "Door" -> "DOOR_STATE"
    [] topicSuffix = "Init" -> "INIT"
    [] topicSuffix = "OpeAck" -> "OPE_ACK"
    [] OTHER -> toUpperCase(topicSuffix)

\* V6800Parser.parseHeartbeat(rawJson, result); bus_V and bus_I in hundredths
V6800_parseHeartbeat(rawJson, result) ==
  LET data == ArrayOf(rawJson, "data")
  IN Some([result EXCEPT
             !.meta = Some([voltage |-> Some(NumberOr(rawJson, "bus_V", 0)),
                            current |-> Some(NumberOr(rawJson, "bus_I", 0)),
                            mainPower |-> Truthy(rawJson, "main_power"),
                            backupPower |-> Truthy(rawJson, "backup_power")]),
             !.modules =
               [i \in 1..Len(data) |->
                  [modAddr |-> NumberOr(data[i], "module_index",
                                        NumberOr(data[i], "host_gateway_port_index", 0)),
                   modId |-> StringOr(data[i], "module_sn",
                                      StringOr(data[i], "extend_module_sn", "")),
                   uTotal |-> NumberOr(data[i], "module_u_num", 0)]]])

\* the action parseLabelState gives a tag record, with the branches of the
\* inner `if` exchanged
TagAction_Swapped(tagData) ==
  IF "new_state" \in DOMAIN tagData /\ "old_state" \in DOMAIN tagData
  THEN IF tagData.new_state = 1 /\ tagData.old_state = 0 THEN "detached"
       ELSE IF tagData.new_state = 0 /\ tagData.old_state = 1 THEN "attached"
       ELSE "null"
  ELSE "null"

\* the action parseLabelState gives a tag record; "null" is null
TagAction(tagData) ==
  IF "new_state" \in DOMAIN tagData /\ "old_state" \in DOMAIN tagData
  THEN IF tagData.new_state = 1 /\ tagData.old_state = 0 THEN "attached"
       ELSE IF tagData.new_state = 0 /\ tagData.old_state = 1 THEN "detached"
       ELSE "null"
  ELSE "null"

\* V6800Parser.parseLabelState(rawJson, result); a tagId of "null" is null
V6800_parseLabelState(rawJson, result) ==
  LET data == ArrayOf(rawJson, "data")
      Items(uData) ==
        [j \in 1..Len(uData) |->
           [uPos |-> uData[j].u_index,
            alarmStatus |-> NumberOr(uData[j], "warning", 0),
            tagId |-> StringOr(uData[j], "tag_code", "null"),
            action |-> TagAction(uData[j])]]
  IN Some([result EXCEPT
             !.data =
               Some([i \in 1..Len(data) |->
                       [modAddr |-> NumberOr(data[i], "host_gateway_port_index",
                                             NumberOr(data[i], "index", 0)),
                        modId |-> StringOr(data[i], "extend_module_sn",
                                           StringOr(data[i], "module_id", "")),
                        items |-> Some(Items(ArrayOf(data[i], "u_data")))]])])

\* V6800Parser.parseTemHum(rawJson, result); readings in hundredths
V6800_parseTemHum(rawJson, result) ==
  LET data == ArrayOf(rawJson, "data")
      Sensors(thData) ==
        [j \in 1..Len(thData) |->
           [sensorAddr |-> thData[j].temper_position,
            temp |-> JsNumber(NumberOr(thData[j], "temper_swot", 0)),
            hum |-> JsNumber(NumberOr(thData[j], "hygrometer_swot", 0))]]
  IN Some([result EXCEPT
             !.data =
               Some([i \in 1..Len(data) |->
                       [modAddr |-> data[i].host_gateway_port_index,
                        modId |-> StringOr(data[i], "extend_module_sn", ""),
                        sensors |-> Sensors(ArrayOf(data[i], "th_data"))]])])

\* V6800Parser.parseDoorState(rawJson, result)
V6800_parseDoorState(rawJson, result) ==
  LET data == ArrayOf(rawJson, "data")
  IN Some([result EXCEPT
             !.data =
               Some([i \in 1..Len(data) |->
                       [modAddr |-> data[i].host_gateway_port_index,
                        modId |-> StringOr(data[i], "extend_module_sn", ""),
                        doorState |-> IF Truthy(data[i], "new_state")
                                      THEN "01" ELSE "00"]])])

\* V6800Parser.parseInit(rawJson, result)
V6800_parseInit(rawJson, result) ==
  LET data == ArrayOf(rawJson, "data")
  IN Some([result EXCEPT
             !.device = Some([ip |-> StringOr(rawJson, "gateway_ip", ""),
                              mac |-> StringOr(rawJson, "gateway_mac", "")]),
             !.modules =
               [i \in 1..Len(data) |->
                  [modAddr |-> data[i].module_index,
                   modId |-> StringOr(data[i], "module_sn", ""),
                   uTotal |-> NumberOr(data[i], "module_u_num", 0),
                   fwVer |-> StringOr(data[i], "module_sw_version", "")]]])

\* V6800Parser.parseOpeAck(rawJson, result); a module without result has ""
V6800_parseOpeAck(rawJson, result) ==
  LET data == ArrayOf(rawJson, "data")
      msgType == StringOr(rawJson, "msg_type", "")
      colors(m) == ArrayOf(m, "color_data")
  IN Some([result EXCEPT
             !.data =
               Some([i \in 1..Len(data) |->
                       [modAddr |-> NumberOr(data[i], "host_gateway_port_index",
                                             NumberOr(data[i], "index", 0)),
                        modId |-> StringOr(data[i], "extend_module_sn",
                                           StringOr(data[i], "module_id", "")),
                        colorMap |->
                          IF msgType = "u_color"
                          THEN Some([j \in 1..Len(colors(data[i])) |->
                                       colors(data[i])[j].code])
                          ELSE None,
                        result |->
                          IF msgType = "set_module_property_result_req"
                          THEN (IF "set_property_result" \in DOMAIN data[i]
                                   /\ data[i].set_property_result = 0
                                THEN "Success" ELSE "Failure")
                          ELSE IF msgType = "clear_u_warning"
                          THEN (IF Truthy(data[i], "ctr_flag")
                                THEN "Success" ELSE "Failure")
                          ELSE ""]])])

\* V6800Parser.parse(topic, jsonString): Some(parsed data), or None for null
V6800Parser_parse(topic, jsonString) ==
  IF ~IsSome(JSON_parse(jsonString)) THEN None          \* catch: return null
  ELSE LET rawJson == Val(JSON_parse(jsonString))
           messageType == mapMessageType(topic[3])
           result ==
             [IM("V6800", messageType, topic[2], 0, None, None) EXCEPT
                !.modId = "",
                !.rawMessageType = StringOr(rawJson, "msg_type", ""),
                !.messageId =
                  IF Truthy(rawJson, "uuid_number")
                  THEN NumberToString(rawJson.uuid_number)
                  ELSE IF Truthy(rawJson, "code") THEN NumberToString(rawJson.code)
                  ELSE ""]
       IN CASE messageType = "HEARTBEAT" -> V6800_parseHeartbeat(rawJson, result)
            [] messageType = "LABEL_STATE" -> V6800_parseLabelState(rawJson, result)
            [] messageType = "TEM_HUM" -> V6800_parseTemHum(rawJson, result)
            [] messageType = "DOOR_STATE" -> V6800_parseDoorState(rawJson, result)
            [] messageType = "INIT" -> V6800_parseInit(rawJson, result)
            [] messageType = "OPE_ACK" -> V6800_parseOpeAck(rawJson, result)
            [] OTHER -> None

\* app.js: the parser is chosen by the topic; without one parsedData stays
\* undefined
parseMessage(topic, message) ==
  IF topic[1] = "V5008Upload" THEN V5008Parser_parse(topic, message)
  ELSE IF topic[1] = "V6800Upload" THEN V6800Parser_parse(topic, message)
  ELSE None

-----------------------------------------------------------------------------
(* History kept for the properties *)

IsDiff(im) == ~im.isNull /\ im.deviceType = "V5008" /\ im.messageType = "LabelState"
IsPatch(im) == ~im.isNull /\ im.deviceType = "V6800" /\ im.messageType = "LABEL_STATE"

\* The modules (deviceId, modAddr) a message names
ModulesOf(im) ==
  IF IsDiff(im) THEN {<<im.deviceId, im.modAddr>>}
  ELSE IF IsPatch(im) /\ IsSome(im.data)
  THEN {<<im.deviceId, Val(im.data)[i].modAddr>> : i \in 1..Len(Val(im.data))}
  ELSE {}

\* The Shadow Store keys a message names
MsgKeys(im) == {createKey(p[1], p[2]) : p \in ModulesOf(im)}

\* The module whose shadow a suspended call has read last
ReadModule(call) ==
  IF IsDiff(call.msg) THEN <<call.msg.deviceId, call.msg.modAddr>>
  ELSE <<call.msg.deviceId, Val(call.msg.data)[call.blk].modAddr>>

\* The call repeats the last completed diff-path call of its module
Repeats(im) ==
  /\ IsDiff(im) /\ IsSome(im.items)
  /\ createKey(im.deviceId, im.modAddr) \in DOMAIN lastDiff
  /\ lastDiff[createKey(im.deviceId, im.modAddr)] = Val(im.items)

Forget(f, keys) == [k \in DOMAIN f \ keys |-> f[k]]

DiffCompleted(call) == call.pc = "settled" /\ call.outcome = "fulfilled" /\ IsDiff(call.msg)

-----------------------------------------------------------------------------
(* Actions *)

InProgress(call) == call.pc \in {"afterGet", "afterSet"}

\* The entries of the cache under the keys a message names
Restrict(c, keys) == [k \in DOMAIN c \cap keys |-> c[k]]

\* The slots after slot s has started the call `started`: the calls in progress
\* and the new call overlap, and those that name a module of the other clash
Started(s, started) ==
  LET others == {t \in CallSlots \ {s} : InProgress(calls[t])}
      rivals == {t \in others :
                   ModulesOf(calls[t].msg) \cap ModulesOf(started.msg) # {}}
  IN [t \in CallSlots |->
        IF t = s
        THEN [started EXCEPT !.clash = (rivals # {}), !.overlapped = (others # {})]
        ELSE IF t \in others
        THEN [calls[t] EXCEPT !.clash = @ \/ t \in rivals, !.overlapped = TRUE]
        ELSE calls[t]]

\* normalize(im) runs to its first suspension in slot s
Begin(s, im, frame) ==
  LET r == normalize([Idle EXCEPT !.msg = im, !.pre = Restrict(cache, MsgKeys(im)),
                                  !.repeat = Repeats(im), !.frame = frame],
                     cache)
  IN /\ calls' = Started(s, r.call)
     /\ cache' = r.cache
     /\ UNCHANGED seeded

\* a suspended call runs to its next suspension
Continue(s) ==
  LET r == resume(calls[s], cache)
  IN /\ calls' = [calls EXCEPT ![s] = r.call]
     /\ cache' = r.cache
     /\ seeded' = IF DiffCompleted(r.call)
                  THEN seeded \cup {createKey(r.call.msg.deviceId, r.call.msg.modAddr)}
                  ELSE seeded

\* lastDiff after the call of slot s has run on: a completed diff-path call
\* is the last one of its module
Remember(s) ==
  LET call == resume(calls[s], cache).call
      key == createKey(call.msg.deviceId, call.msg.modAddr)
  IN IF DiffCompleted(call)
     THEN [k \in DOMAIN lastDiff \cup {key} |->
             IF k = key THEN Val(call.msg.items) ELSE lastDiff[k]]
     ELSE lastDiff

-----------------------------------------------------------------------------
(* ParserRegistry *)

\* how a statement completes: an Error is thrown, or a value comes back
Raised(message) == [threw |-> TRUE, message |-> message]

Completed(value) == [threw |-> FALSE, value |-> value]

\* the static members the parser classes declare: neither class has any
StaticMembers(ParserClass) ==
  CASE ParserClass = "V5008Parser" -> {}
    [] ParserClass = "V6800Parser" -> {}

\* ParserClass.canHandle(topic): calling a member the class does not have
canHandle(ParserClass, topic) ==
  Raised(ParserClass \o ".canHandle is not a function")

\* register(ParserClass): throw unless typeof ParserClass.canHandle is
\* 'function', else push the class
register(parsers, ParserClass) ==
  IF "canHandle" \notin StaticMembers(ParserClass)
  THEN Raised("Parser " \o ParserClass
              \o " must implement a static canHandle(topic) method")
  ELSE Completed(Append(parsers, ParserClass))

\* _registerParsers(): register V5008Parser, then V6800Parser
registerParsers(parsers) ==
  LET first == register(parsers, "V5008Parser")
  IN IF first.threw THEN first ELSE register(first.value, "V6800Parser")

\* new ParserRegistry(): this.parsers = [], then _registerParsers()
ParserRegistry_constructor == registerParsers(<<>>)

\* a topic argument: a string (its segments between '/', none for '') or
\* another JavaScript value
TopicString(segments) == [js |-> "string", text |-> segments]

\* !topic
Falsy(topic) ==
  \/ topic.js \in {"null", "undefined"}
  \/ topic.js = "string" /\ topic.text = <<>>
  \/ topic.js = "number" /\ topic.hundredths = 0

\* the loop of getParser: an instance of the first class that can handle
RECURSIVE FirstHandler(_, _)
FirstHandler(parsers, topic) ==
  IF parsers = <<>>
  THEN Completed(JsNull)
  ELSE LET can == canHandle(Head(parsers), topic)
       IN IF can.threw THEN can
          ELSE IF can.value THEN Completed([instanceOf |-> Head(parsers)])
          ELSE FirstHandler(Tail(parsers), topic)

\* getParser(topic)
getParser(parsers, topic) ==
  IF Falsy(topic) \/ topic.js # "string"
  THEN Completed(JsNull)
  ELSE FirstHandler(parsers, topic)

\* const registry = new ParserRegistry(); registry.getParser(topic): the
\* second statement runs only if the first one did not throw
Resolve(topic) ==
  /\ LET registry == ParserRegistry_constructor
     IN resolved' = Some([topic |-> topic, registry |-> registry,
                          parser |-> IF registry.threw THEN None
                                     ELSE Some(getParser(registry.value, topic))])
  /\ UNCHANGED <<cache, calls, seeded, lastDiff, decoded, held, storage, bus,
               obtained>>

\* a caller builds the Map m, awaits stateCache.set(deviceId, modAddr, m) and
\* keeps m
Set(deviceId, modAddr, m) ==
  /\ cache' = StateCache_set(cache, deviceId, modAddr, m)
  /\ held' = Some([deviceId |-> deviceId, modAddr |-> modAddr, passed |-> m,
                   map |-> m, object |-> NewMap(m).object])
  /\ UNCHANGED <<calls, seeded, lastDiff, decoded, resolved, storage, bus,
               obtained>>

\* the caller changes the Map it holds: m.set(uPos, tag) for Some(tag),
\* m.delete(uPos) for None; a cache entry that is the same object changes too
Change(uPos, tag) ==
  /\ IsSome(held)
  /\ LET h == Val(held)
         m == IF IsSome(tag) THEN MapSet(h.map, uPos, Val(tag))
              ELSE MapDelete(h.map, uPos)
     IN /\ held' = Some([h EXCEPT !.map = m])
        /\ cache' = IF h.object = "argument"
                    THEN [cache EXCEPT ![createKey(h.deviceId, h.modAddr)] = m]
                    ELSE cache
  /\ UNCHANGED <<calls, seeded, lastDiff, decoded, resolved, storage, bus,
               obtained>>

\* No message handler runs: nothing was decoded
NoDecode == [topic |-> <<>>, message |-> <<>>, parsedData |-> None]

\* normalizer.normalize(im) is called with a parsed-data object and awaited
Call(s, im) ==
  /\ calls[s].pc = "idle"
  /\ Begin(s, im, <<>>)
  /\ lastDiff' = Forget(lastDiff, MsgKeys(im))
  /\ decoded' = NoDecode
  /\ UNCHANGED collaborators

\* app.js, the 'mqtt.message' handler: parse the frame; if it decoded, normalize
Receive(s, topic, buf) ==
  /\ calls[s].pc = "idle"
  /\ LET parsedData == parseMessage(topic, buf)
     IN /\ decoded' = [topic |-> topic, message |-> buf, parsedData |-> parsedData]
        /\ IF IsSome(parsedData)
           THEN /\ Begin(s, Val(parsedData), buf)
                /\ lastDiff' = Forget(lastDiff, MsgKeys(Val(parsedData)))
           ELSE UNCHANGED <<cache, calls, seeded, lastDiff>>
  /\ UNCHANGED collaborators

\* a suspended call is resumed and runs to its next suspension
Resume(s) ==
  /\ InProgress(calls[s])
  /\ Continue(s)
  /\ lastDiff' = Remember(s)
  /\ UNCHANGED <<decoded, collaborators>>

\* normalizer.normalize(im) is called while other calls may be suspended
CallOverlap(s, im) ==
  /\ calls[s].pc = "idle"
  /\ Begin(s, im, <<>>)
  /\ UNCHANGED <<lastDiff, decoded, collaborators>>

\* a suspended call is resumed, in any order among the suspended calls
ResumeOverlap(s) ==
  /\ InProgress(calls[s])
  /\ Continue(s)
  /\ UNCHANGED <<lastDiff, decoded, collaborators>>

\* the caller's `await normalize(...)` continues with the settled result
Deliver(s) ==
  /\ calls[s].pc = "settled"
  /\ calls' = [calls EXCEPT ![s] = Idle]
  /\ decoded' = NoDecode
  /\ UNCHANGED <<cache, seeded, lastDiff, collaborators>>

\* a new call takes the first free slot
FirstFree(s) == \A t \in CallSlots : t < s => calls[t].pc # "idle"

NoCallInProgress == \A s \in CallSlots : calls[s].pc = "idle"

\* new StateCache(): an empty Map; no call
Init ==
  /\ cache = <<>>
  /\ calls = [s \in CallSlots |-> Idle]
  /\ seeded = {}
  /\ lastDiff = <<>>
  /\ decoded = NoDecode
  /\ resolved = None
  /\ held = None
  /\ storage = [isStarted |-> FALSE, batch |-> <<>>, statements |-> <<>>]
  /\ bus = [arrivals |-> <<>>, order |-> [s \in CallSlots |-> 0], emitted |-> <<>>]
  /\ obtained = None

-----------------------------------------------------------------------------
(* Inputs *)

Msgs == DiffMsgs \cup PatchMsgs

Topic(suffix) == <<"V5008Upload", "d1", suffix>>

\* BB, module 1, serial 1001, reserved, 6 slots, 1 tag (position 3), message id
LabelFrame == <<187, 1, 0, 0, 3, 233, 0, 6, 1, 3, 0, 0, 0, 0, 10, 0, 0, 0, 1>>
\* BA, module 1, serial 1001, state 01, message id
DoorFrame == <<186, 1, 0, 0, 3, 233, 1, 0, 0, 0, 2>>
\* AA, device id, result A1, echoed request E1 01, message id
AckFrame == <<170, 0, 0, 0, 7, 161, 225, 1, 0, 0, 0, 3>>
\* CC, one module record (module 1, serial 1001, 6 slots), padding, message id
HeartbeatFrame == <<204, 1, 0, 0, 3, 233, 6, 0, 0, 0, 0, 0, 0, 4>>
\* a LabelState frame cut after its second byte
TruncatedFrame == <<187, 1>>

FrameInputs ==
  {<<Topic("LabelState"), LabelFrame>>, <<Topic("OpeAck"), DoorFrame>>,
   <<Topic("OpeAck"), AckFrame>>, <<Topic("OpeAck"), HeartbeatFrame>>,
   <<Topic("LabelState"), TruncatedFrame>>}

\* Messages of calls that overlap: one module block, at most MaxOverlapItems
\* items, one tag identity, every item with an action
OverlapItems(items) ==
  /\ Len(items) <= MaxOverlapItems
  /\ \A i \in 1..Len(items) : items[i].tagId = "A"

\* Messages normalize has no processor for: null, no deviceType, a deviceType
\* that is neither V5008 nor V6800, and a messageType of the other protocol
\* or of none, each with tag items that a processor would act on
InvalidMsgs ==
  {NullIM}
  \cup
  {[IM(t[1], t[2], d, m, Some(<<i>>), Some(<<Block(m, Some(<<j>>))>>))
      EXCEPT !.result = r] :
     t \in {<<"", "LabelState">>, <<"", "LABEL_STATE">>,
            <<"V9000", "LabelState">>, <<"V9000", "LABEL_STATE">>,
            <<"V5008", "LABEL_STATE">>, <<"V5008", "DOOR_STATE">>,
            <<"V5008", "UNKNOWN">>, <<"V6800", "LabelState">>,
            <<"V6800", "Noise">>, <<"V6800", "OpeAck">>},
     d \in DeviceIds, m \in {1}, r \in {"", "Success"},
     i \in {x \in DiffItems(1) : x.uPos = 3 /\ x.tagId = "B"},
     j \in {x \in PatchItems(1) : x.uPos = 5 /\ x.action = "attached"}}

\* V6800 INIT messages: the gateway and the modules it reports
InitMsgs ==
  {[IM("V6800", "INIT", d, 0, None, None) EXCEPT
      !.modId = "",
      !.device = Some([ip |-> "192.168.0.10", mac |-> "00:1A:2B:3C:4D:5E"]),
      !.modules = [i \in 1..Len(ms) |->
                     [modAddr |-> ms[i], modId |-> ModIdOf(ms[i]),
                      uTotal |-> 6, fwVer |-> "9"]]] :
     d \in DeviceIds, ms \in {<<1>>, <<2>>, <<1, 2>>}}

OverlapMsgs ==
  {im \in DiffMsgs : IsSome(im.items) /\ OverlapItems(Val(im.items))}
  \cup
  {im \in PatchMsgs :
     /\ IsSome(im.data) /\ Len(Val(im.data)) = 1
     /\ IsSome(Val(im.data)[1].items)
     /\ OverlapItems(Val(Val(im.data)[1].items))
     /\ \A i \in 1..Len(Val(Val(im.data)[1].items)) :
          Val(Val(im.data)[1].items)[i].action # "null"}

-----------------------------------------------------------------------------
(* Payloads handed to the V5008 adapter *)

RECURSIVE Flatten(_)
Flatten(parts) == IF parts = <<>> THEN <<>> ELSE Head(parts) \o Flatten(Tail(parts))

\* All frames head \o records \o tail with at most MaxRecords records
Framed(head, recordKinds, tail) ==
  {head \o Flatten(records) \o tail : records \in SeqsUpTo(recordKinds, MaxRecords)}

\* 4-byte identifiers: 1001, and the two of the protocol examples whose top
\* bit is set (EC 37 37 BF, F2 00 16 8F)
SmallId == <<0, 0, 3, 233>>
ModuleIds == {SmallId, <<236, 55, 55, 191>>}
MessageIds == {<<0, 0, 0, 1>>, <<242, 0, 22, 143>>}

\* TemHum: module address, module id, slots of (address, temp pair, hum pair)
TempPairs == {<<0, 0>>, <<28, 48>>, <<236, 50>>}
HumPairs == {<<0, 0>>, <<51, 27>>}
TemHumSlots == {<<a>> \o t \o h : a \in {10, 9}, t \in TempPairs, h \in HumPairs}
TemHumFrames == Framed(<<1>> \o SmallId, TemHumSlots, <<0, 0, 0, 1>>)

\* TemHum frames of one slot whose temperature pair runs over the corners of
\* the byte range
CornerBytes == {0, 1, 99, 100, 127, 128, 255}
CornerFrames ==
  {<<1>> \o SmallId \o <<10, i, f, 0, 0>> \o <<0, 0, 0, 1>> :
     i \in CornerBytes, f \in CornerBytes}

\* Noise: module address, module id, slots of (address, noise pair)
NoiseSlots == {<<a>> \o n : a \in {16, 19}, n \in {<<0, 0>>, <<45, 50>>}}
NoiseFrames == Framed(<<1>> \o SmallId, NoiseSlots, <<0, 0, 0, 1>>)

\* Heartbeat: CC, module records (address, module id, slot count), spare bytes
\* or none, message id
HeartbeatRecords == {<<a>> \o id \o <<6>> : a \in {0, 1, 5, 6}, id \in ModuleIds}
HeartbeatFrames ==
  UNION {Framed(<<204>>, HeartbeatRecords, spare \o id) :
           spare \in {<<>>, <<0, 0, 0>>}, id \in MessageIds}

\* LabelState: BB, module address 2, module id, reserved, 12 slots, online
\* count, tag records (position, alarm, tag id), message id
LabelRecords == {<<u, 0, 221, 52, 74, 68>> : u \in {10, 11}}
LabelFrames ==
  UNION {{<<187, 2>> \o id \o <<0, 12, Len(records)>> \o Flatten(records) \o <<0, 0, 0, 1>> :
            records \in SeqsUpTo(LabelRecords, MaxRecords)} : id \in ModuleIds}

\* Door state: BA, module address, module id, state, message id
DoorFrames == {<<186, 1>> \o id \o <<st>> \o <<0, 0, 0, 2>> : id \in ModuleIds, st \in {0, 1}}

\* Responses: AA, device id, result code, echoed request, message id
AckFrames ==
  {<<170>> \o SmallId \o <<code>> \o req \o <<0, 0, 0, 3>> :
     code \in {161, 160}, req \in {<<225, 1>>, <<228, 1>>}}

\* Device information (EF 01: model, firmware, ip, mask, gateway, mac) and
\* module information (EF 02: entries of module address and firmware)
DeviceInfoFrame ==
  <<239, 1, 86, 53, 48, 48, 0, 0, 0, 7, 192, 168, 0, 10, 255, 255, 255, 0,
    192, 168, 0, 1, 0, 26, 43, 60, 77, 94, 0, 0, 0, 5>>
ModuleInfoFrame == <<239, 2, 1, 0, 0, 0, 9, 0, 0, 0, 6>>

\* The frames cut short: every proper prefix of a frame of each kind
Prefixes(frame) == {SubSeq(frame, 1, n) : n \in 0..(Len(frame) - 1)}
OneLabelFrame == <<187, 2>> \o SmallId \o <<0, 12, 1, 10, 0, 221, 52, 74, 68, 0, 0, 0, 1>>
OneHeartbeatFrame == <<204, 1>> \o SmallId \o <<6, 0, 0, 0, 0, 0, 0, 4>>
OneDoorFrame == <<186, 1>> \o SmallId \o <<1, 0, 0, 0, 2>>
OneAckFrame == <<170>> \o SmallId \o <<161, 225, 1, 0, 0, 0, 3>>

\* the colour-query request a device echoes: E4, module address 1
ColorRequest == <<228, 1>>

\* the colour codes that follow the echoed request: the six of the protocol
\* example, and every shorter list of the codes 0 and 13
ColorLists == {<<0, 0, 0, 13, 13, 8>>} \cup SeqsUpTo({0, 13}, MaxRecords)

\* AA, device id, result A1, the echoed request, the colour codes, message id
ColorFrames ==
  {<<170>> \o SmallId \o <<161>> \o ColorRequest \o colors \o <<0, 0, 0, 3>> :
     colors \in ColorLists}

\* JSON texts handed to the V6800 adapter
Json(value) == [text |-> "object", value |-> value]
Malformed == [text |-> "malformed"]

TopicV6800(suffix) == <<"V6800Upload", "d1", suffix>>

\* A property a JSON object has with one of the values, or does not have
Optional(key, values) == {<<>>} \cup {key :> v : v \in values}

\* Tag records of a LabelState message, each state flag 0, 1, 2 or missing
TagRecords ==
  {[u_index |-> u, tag_code |-> "A", warning |-> 0] @@ new @@ old :
     u \in {3}, new \in Optional("new_state", {0, 1, 2}),
     old \in Optional("old_state", {0, 1, 2})}

LabelStateJsons ==
  {Json([msg_type |-> "u_state_changed_notify_req", uuid_number |-> 7,
         data |-> <<[host_gateway_port_index |-> 1, extend_module_sn |-> "1001",
                     u_data |-> tags]>>]) :
     tags \in SeqsUpTo(TagRecords, MaxRecords)}

HeartBeatJsons ==
  {Json([msg_type |-> "heart_beat_req", uuid_number |-> 8,
         data |-> <<[module_index |-> 1, module_sn |-> "1001", module_u_num |-> 6]>>]
        @@ voltage @@ main) :
     voltage \in Optional("bus_V", {2389}), main \in Optional("main_power", {0, 1})}

TemHumJson ==
  Json([msg_type |-> "temper_humidity_exception_nofity_req", uuid_number |-> 9,
        data |-> <<[host_gateway_port_index |-> 1, extend_module_sn |-> "1001",
                    th_data |-> <<[temper_position |-> 10, temper_swot |-> 2848,
                                   hygrometer_swot |-> 5127]>>]>>])

DoorJson ==
  Json([msg_type |-> "door_state_changed_notify_req", uuid_number |-> 10,
        data |-> <<[host_gateway_port_index |-> 1, extend_module_sn |-> "1001",
                    new_state |-> 1]>>])

InitJson ==
  Json([msg_type |-> "devies_init_req", uuid_number |-> 11,
        gateway_ip |-> "192.168.0.10", gateway_mac |-> "00:1A:2B:3C:4D:5E",
        data |-> <<[module_index |-> 1, module_sn |-> "1001", module_u_num |-> 6,
                    module_sw_version |-> "9"]>>])

OpeAckJson ==
  Json([msg_type |-> "set_module_property_result_req", code |-> 12,
        data |-> <<[host_gateway_port_index |-> 1, extend_module_sn |-> "1001",
                    set_property_result |-> 0]>>])

\* The topic suffixes of the mapping, and others
MappedSuffixes == {"HeartBeat", "LabelState", "TemHum", "Door", "Init", "OpeAck"}
OtherSuffixes == {"init", "heartbeat", "HEARTBEAT", "LABEL_STATE", "Noise", "Unknown"}

JsonInputs ==
  ({TopicV6800("LabelState")} \X LabelStateJsons)
  \cup ({TopicV6800("HeartBeat")} \X HeartBeatJsons)
  \cup {<<TopicV6800("TemHum"), TemHumJson>>, <<TopicV6800("Door"), DoorJson>>,
        <<TopicV6800("Init"), InitJson>>, <<TopicV6800("OpeAck"), OpeAckJson>>}
  \cup ({TopicV6800(suffix) : suffix \in MappedSuffixes \cup OtherSuffixes}
        \X {Malformed})
  \cup ({TopicV6800(suffix) : suffix \in OtherSuffixes}
        \X ({InitJson} \cup HeartBeatJsons))

\* Heartbeat messages passed to normalize directly: a V5008 heartbeat as the
\* tests write it (messageType 'OpeAck') and under the type names the
\* normalizer switches on, a V6800 heartbeat; meta with or without voltage and
\* current (in hundredths), or no meta
PowerMetas ==
  {None} \cup
  {Some([voltage |-> v, current |-> c, mainPower |-> b, backupPower |-> ~b]) :
     v \in {None, Some(2389)}, c \in {None, Some(570)}, b \in BOOLEAN}

HeartbeatMsgs ==
  {[IM(t[1], t[2], "d1", 0, None, None) EXCEPT !.modId = "", !.meta = meta] :
     t \in {<<"V5008", "OpeAck">>, <<"V5008", "HEARTBEAT">>, <<"V5008", "HeartBeat">>,
            <<"V6800", "HEARTBEAT">>},
     meta \in PowerMetas}

\* topic and payload of the messages the handler receives
\* Label frames whose online-tag count byte and length are chosen apart: the
\* count byte may exceed or undercut the records present, and a frame may
\* carry the first bytes of one more record before its message id
CountBytes == {0, 1, MaxRecords + 1}
SpareBytes == {<<>>, <<11, 0, 221>>}
CountFrames ==
  {<<187, 2>> \o SmallId \o <<0, 12, c>> \o Flatten(records) \o spare
     \o <<0, 0, 0, 1>> :
     c \in CountBytes, records \in SeqsUpTo(LabelRecords, MaxRecords),
     spare \in SpareBytes}

DecodeInputs ==
  ({Topic("TemHum")} \X (TemHumFrames \cup CornerFrames \cup Prefixes(<<1>> \o SmallId)))
  \cup ({Topic("Noise")} \X NoiseFrames)
  \cup ({Topic("OpeAck")} \X
         (HeartbeatFrames \cup DoorFrames \cup AckFrames
          \cup {DeviceInfoFrame, ModuleInfoFrame}
          \cup Prefixes(OneHeartbeatFrame) \cup Prefixes(OneDoorFrame)
          \cup Prefixes(OneAckFrame) \cup ColorFrames))
  \cup ({Topic("LabelState")} \X (LabelFrames \cup Prefixes(OneLabelFrame) \cup CountFrames))
  \cup ({Topic("OpeAck"), Topic("TemHum"), Topic("Unknown")} \X
         {OneLabelFrame, OneHeartbeatFrame, OneDoorFrame, OneAckFrame,
          <<203>> \o Tail(OneHeartbeatFrame), DeviceInfoFrame, ModuleInfoFrame})
  \cup ({Topic("OPE_ACK")} \X {DeviceInfoFrame, ModuleInfoFrame})

-----------------------------------------------------------------------------
(* Specifications *)

\* Every call is awaited before the next one is made (as the test suite does)
Next ==
  \/ \E im \in Msgs \cup InvalidMsgs \cup InitMsgs :
       NoCallInProgress /\ Call(1, im)
  \/ \E f \in FrameInputs : NoCallInProgress /\ Receive(1, f[1], f[2])
  \/ Resume(1)
  \/ Deliver(1)

Spec == Init /\ [][Next]_vars

\* Calls are made while earlier calls are suspended (handlers of an event bus,
\* Promise.all): the suspended calls resume in any order
NextOverlap ==
  \E s \in CallSlots :
    \/ \E im \in OverlapMsgs : FirstFree(s) /\ CallOverlap(s, im)
    \/ ResumeOverlap(s)
    \/ Deliver(s)

SpecOverlap == Init /\ [][NextOverlap]_vars

-----------------------------------------------------------------------------
(* The application's handler of mqtt.message events.  The handler hands the *)
(* parsed message to normalize, awaits the promise and emits the events it  *)
(* is fulfilled with as one data.normalized batch; a rejection is logged    *)
(* and nothing is emitted.  Handlers of messages that arrive while an       *)
(* earlier handler is suspended run interleaved with it.                    *)

\* The number of mqtt.message events of a run
MaxArrivals == 3

\* The parsed messages that arrive: diff-path lists that hold position 3 of a
\* module or nothing, patch-path messages of one item for module 1, and one
\* heartbeat
BusMsgs ==
  {im \in OverlapMsgs :
     /\ IsDiff(im) =>
          \A i \in 1..Len(Val(im.items)) : Val(im.items)[i].uPos = 3
     /\ IsPatch(im) =>
          /\ Val(im.data)[1].modAddr = 1
          /\ Len(Val(Val(im.data)[1].items)) = 1}
  \cup {im \in HeartbeatMsgs :
          /\ im.deviceType = "V5008" /\ im.messageType = "HEARTBEAT"
          /\ im.meta = Some([voltage |-> Some(2389), current |-> Some(570),
                             mainPower |-> TRUE, backupPower |-> FALSE])}

\* this.eventBus.emit('data.normalized', normalizedData) once the awaited
\* promise is fulfilled
Emitted(emitted, call, arrival) ==
  IF call.pc = "settled" /\ call.outcome = "fulfilled"
  THEN Append(emitted, [arrival |-> arrival, batch |-> call.results])
  ELSE emitted

\* eventBus.on('mqtt.message', async (mqttData) => ...), up to the await of
\* normalize or, when the promise is settled at once, to the handler's end
OnMqttMessage(s, im) ==
  /\ calls[s].pc = "idle"
  /\ Len(bus.arrivals) < MaxArrivals
  /\ LET r == normalize([Idle EXCEPT !.msg = im,
                                     !.pre = Restrict(cache, MsgKeys(im)),
                                     !.repeat = Repeats(im)],
                        cache)
         arrival == Len(bus.arrivals) + 1
     IN /\ calls' = IF r.call.pc = "settled" THEN calls ELSE Started(s, r.call)
        /\ cache' = r.cache
        /\ bus' = [arrivals |-> Append(bus.arrivals, im),
                   order |-> [bus.order EXCEPT ![s] = arrival],
                   emitted |-> Emitted(bus.emitted, r.call, arrival)]
  /\ UNCHANGED <<seeded, lastDiff, decoded, resolved, held, storage,
               obtained>>

\* A suspended handler runs on: to the call's next suspension point or, when
\* the promise settles, through the emission to the handler's end
HandlerResumes(s) ==
  /\ InProgress(calls[s])
  /\ LET r == resume(calls[s], cache)
     IN /\ calls' = [calls EXCEPT ![s] = IF r.call.pc = "settled" THEN Idle
                                         ELSE r.call]
        /\ cache' = r.cache
        /\ bus' = [bus EXCEPT !.emitted = Emitted(@, r.call, bus.order[s])]
  /\ UNCHANGED <<seeded, lastDiff, decoded, resolved, held, storage,
               obtained>>

NextBus ==
  \E s \in CallSlots :
    \/ \E im \in BusMsgs : FirstFree(s) /\ OnMqttMessage(s, im)
    \/ HandlerResumes(s)

SpecBus == Init /\ [][NextBus]_vars

\* The message handler takes one message at a time: the adapter decodes the
\* payload and the decoded message is normalized
NextDecode ==
  \/ \E f \in DecodeInputs \cup JsonInputs : NoCallInProgress /\ Receive(1, f[1], f[2])
  \/ \E im \in HeartbeatMsgs : NoCallInProgress /\ Call(1, im)
  \/ Resume(1)
  \/ Deliver(1)

SpecDecode == Init /\ [][NextDecode]_vars

-----------------------------------------------------------------------------
(* StorageService *)

\* the columns every table takes from the identity of an event; the events
\* carry numeric addresses, for which `addr || 0` is the address
IdentityColumns(item) ==
  [device_id |-> item.identity.deviceId, device_type |-> item.identity.deviceType,
   mod_addr |-> item.identity.modAddr, sensor_addr |-> item.identity.sensorAddr]

\* JSON.stringify(value): the JSON text of the value
JSON_stringify(value) == [text |-> "object", value |-> value]

\* _groupByType: the types of the items in the order of their first item,
\* each with its items in the order of the array
RECURSIVE TypesOf(_)
TypesOf(array) ==
  IF array = <<>> THEN <<>>
  ELSE LET before == TypesOf(SubSeq(array, 1, Len(array) - 1))
           type == array[Len(array)].type
       IN IF \E i \in 1..Len(before) : before[i] = type THEN before
          ELSE Append(before, type)

groupByType(normalizedDataArray) ==
  LET types == TypesOf(normalizedDataArray)
  IN [i \in 1..Len(types) |->
        [type |-> types[i],
         data |-> SelectSeq(normalizedDataArray, LAMBDA item : item.type = types[i])]]

\* _saveTelemetryBatch: one batch insert into iot_telemetry
saveTelemetryBatch(telemetryData) ==
  <<[table |-> "iot_telemetry", statement |-> "insert",
     rows |-> [i \in 1..Len(telemetryData) |->
                 IdentityColumns(telemetryData[i]) @@
                 [telemetry_key |-> telemetryData[i].payload.key,
                  telemetry_value |-> telemetryData[i].payload.value]]]>>

\* _saveRfidEvents: one insert into iot_rfid_events
saveRfidEvents(rfidEventData) ==
  <<[table |-> "iot_rfid_events", statement |-> "insert",
     rows |-> [i \in 1..Len(rfidEventData) |->
                 IdentityColumns(rfidEventData[i]) @@
                 [tag_id |-> rfidEventData[i].payload.value.tagId,
                  action |-> rfidEventData[i].payload.value.action]]]>>

\* _upsertDeviceState: one insert ... onConflict ... merge per item
upsertDeviceState(type, stateData) ==
  [i \in 1..Len(stateData) |->
     [table |-> "iot_device_state", statement |-> "upsert",
      rows |-> <<IdentityColumns(stateData[i]) @@
                 [state_type |-> type,
                  json_value |-> JSON_stringify(stateData[i].payload)]>>]]

\* the switch of saveBatch with a default branch that upserts
saveGroup_UpsertDefault(type, data) ==
  CASE type = "SYS_TELEMETRY" -> saveTelemetryBatch(data)
    [] type = "SYS_RFID_EVENT" -> saveRfidEvents(data)
    [] OTHER -> upsertDeviceState(type, data)

\* the switch of saveBatch: the statements sent for one group
saveGroup(type, data) ==
  CASE type = "SYS_TELEMETRY" -> saveTelemetryBatch(data)
    [] type = "SYS_RFID_EVENT" -> saveRfidEvents(data)
    [] type \in {"SYS_RFID_SNAPSHOT", "SYS_STATE_CHANGE", "SYS_DEVICE_INFO",
                 "SYS_LIFECYCLE"} -> upsertDeviceState(type, data)
    [] OTHER -> <<>>

\* saveBatch: nothing unless started, else group by type and save each group;
\* the database carries every statement out
saveBatch(isStarted, normalizedDataArray) ==
  IF ~isStarted THEN <<>>
  ELSE LET groupedData == groupByType(normalizedDataArray)
       IN Flatten([i \in 1..Len(groupedData) |->
                     saveGroup(groupedData[i].type, groupedData[i].data)])

\* start(): the listener for 'data.normalized' is registered (the database
\* is connected)
Start ==
  /\ ~storage.isStarted
  /\ storage' = [storage EXCEPT !.isStarted = TRUE]
  /\ UNCHANGED <<cache, calls, seeded, lastDiff, decoded, resolved, held, bus,
               obtained>>

\* stop(): the listener is removed
Stop ==
  /\ storage.isStarted
  /\ storage' = [storage EXCEPT !.isStarted = FALSE]
  /\ UNCHANGED <<cache, calls, seeded, lastDiff, decoded, resolved, held, bus,
               obtained>>

\* handleNormalizedData, the listener start() registers: an empty array is
\* refused, any other is handed to saveBatch
HandleNormalizedData(normalizedDataArray) ==
  /\ storage.isStarted
  /\ storage' = IF normalizedDataArray = <<>> THEN storage
                ELSE [storage EXCEPT
                        !.batch = normalizedDataArray,
                        !.statements = saveBatch(storage.isStarted, normalizedDataArray)]
  /\ UNCHANGED <<cache, calls, seeded, lastDiff, decoded, resolved, held, bus,
               obtained>>

\* Largest number of events in one array handed to the StorageService.
MaxBatch == 3

\* Events of every type, as the normalizer returns them
SampleEvents ==
  LET v5008 == IM("V5008", "LabelState", "d1", 1, None, None)
      v6800 == IM("V6800", "LABEL_STATE", "d1", 0, None, None)
  IN { TelemetryEvent(v5008, 10, "temperature", JsNumber(2345)),
       RfidEvent(v6800, 1, "attached", 3, "A", 0),
       SnapshotEvent(v5008, 1, ModIdOf(1), <<[uPos |-> 3, tag |-> TagData("A")]>>),
       RequireSyncEvent(v6800, 1),
       createResponseObject([v5008 EXCEPT !.messageType = "OpeAck",
                                          !.result = "Success"])[1],
       [identity |-> Identity(v6800, 1, 0), type |-> "SYS_DEVICE_INFO",
        payload |-> [key |-> "module_info",
                     value |-> [modId |-> ModIdOf(1), uTotal |-> 6, fwVer |-> "9"]]],
       [identity |-> Identity(v5008, 0, 0), type |-> "SYS_LIFECYCLE",
        payload |-> [key |-> "device_status", value |-> [scalar |-> "online"]]] }

NextStorage ==
  \/ Start
  \/ Stop
  \/ \E array \in SeqsUpTo(SampleEvents, MaxBatch) : HandleNormalizedData(array)

SpecStorage == Init /\ [][NextStorage]_vars

\* the topics of the registry tests: adapter topics, unknown topics, the
\* empty string and values that are no strings
TopicInputs ==
  { TopicString(<<"V5008Upload", "123", "OpeAck">>),
    TopicString(<<"V5008Upload", "2437871205", "HeartBeat">>),
    TopicString(<<"V6800Upload", "123", "HeartBeat">>),
    TopicString(<<"V6800Upload", "456", "Status">>),
    TopicString(<<"Unknown", "123">>),
    TopicString(<<"UnknownDevice", "12345", "Test">>),
    TopicString(<<>>),
    JsNull, JsUndefined, JsNumber(12300), [js |-> "object"] }

\* the Maps a caller builds for a module: some of its positions, each with a tag
CallerMaps(modAddr) ==
  {m \in SeqsUpTo({[uPos |-> u, tag |-> TagData(t)] :
                     u \in UPosOf(modAddr), t \in TagIdsOf(modAddr)}, MaxItems) :
     \A i, j \in 1..Len(m) : m[i].uPos = m[j].uPos => i = j}

\* what the caller puts at a position afterwards: a tag, or nothing (delete)
CallerTags == {None} \cup {Some(TagData(t)) : t \in {"A", "B"}}

\* The collaborators of the pipeline are exercised
NextService ==
  \/ \E topic \in TopicInputs : Resolve(topic)
  \/ \E d \in DeviceIds, m \in ModAddrs :
       \E map \in CallerMaps(m) : Set(d, m, map)
  \/ \E u \in UNION {UPosOf(m) : m \in ModAddrs}, tag \in CallerTags : Change(u, tag)

SpecService == Init /\ [][NextService]_vars

-----------------------------------------------------------------------------
(* A caller of StateCache.get keeps the Map it was given while the store is *)
(* operated on and normalize calls run, each call awaited.                  *)

HolderKey(o) == createKey(Val(o).deviceId, Val(o).modAddr)

\* this.cache.set(key, ...), this.cache.delete(key) and this.cache.clear()
\* put another value, or none, under the key: the Map object that was stored
\* there is no longer the stored one, and is left as it was
Displaced(o, keys) ==
  IF IsSome(o) /\ HolderKey(o) \in keys
  THEN Some([Val(o) EXCEPT !.stored = FALSE])
  ELSE o

\* The held Map after a step of a call.  The step from the read to the write
\* of a module is the only one that touches Maps of the store: the diff path
\* reads prevTags and fills a Map of its own (currTags); the patch path
\* calls set and delete on updatedShadow, which is the held Map exactly when
\* the working copy is the object that get returned and that Map is still
\* the stored one; set then stores a copy under the key.
AfterStep(o, call, after) ==
  IF /\ IsSome(o)
     /\ call.pc = "afterGet" /\ after.pc = "afterSet"
     /\ HolderKey(o) = createKey(ReadModule(call)[1], ReadModule(call)[2])
  THEN Some([Val(o) EXCEPT
               !.stored = FALSE,
               !.map = IF /\ Val(o).stored
                          /\ IsPatch(call.msg)
                          /\ WorkingCopy(Val(call.got)).object = "argument"
                       THEN after.work
                       ELSE @])
  ELSE o

\* const m = await stateCache.get(deviceId, modAddr)
Get(deviceId, modAddr) ==
  /\ obtained' =
       LET cached == StateCache_get(cache, deviceId, modAddr)
       IN IF IsSome(cached)
          THEN Some([deviceId |-> deviceId, modAddr |-> modAddr,
                     returned |-> Val(cached), map |-> Val(cached),
                     stored |-> TRUE])
          ELSE None
  /\ UNCHANGED <<cache, calls, seeded, lastDiff, decoded, resolved, held,
                 storage, bus>>

\* await stateCache.set(deviceId, modAddr, m)
Put(deviceId, modAddr, m) ==
  /\ NoCallInProgress
  /\ cache' = StateCache_set(cache, deviceId, modAddr, m)
  /\ obtained' = Displaced(obtained, {createKey(deviceId, modAddr)})
  /\ UNCHANGED <<calls, seeded, lastDiff, decoded, resolved, held, storage, bus>>

\* await stateCache.clear(deviceId, modAddr)
Clear(deviceId, modAddr) ==
  /\ NoCallInProgress
  /\ cache' = StateCache_clear(cache, deviceId, modAddr)
  /\ obtained' = Displaced(obtained, {createKey(deviceId, modAddr)})
  /\ UNCHANGED <<calls, seeded, lastDiff, decoded, resolved, held, storage, bus>>

\* await stateCache.clearAll()
ClearAll ==
  /\ NoCallInProgress
  /\ cache' = StateCache_clearAll(cache)
  /\ obtained' = Displaced(obtained, DOMAIN cache)
  /\ UNCHANGED <<calls, seeded, lastDiff, decoded, resolved, held, storage, bus>>

\* normalize(im), up to its first suspension point
CallHeld(im) ==
  /\ NoCallInProgress
  /\ Begin(1, im, <<>>)
  /\ UNCHANGED <<lastDiff, decoded, resolved, held, storage, bus, obtained>>

\* The call runs on to its next suspension point or settles
ResumeHeld ==
  /\ InProgress(calls[1])
  /\ Continue(1)
  /\ obtained' = AfterStep(obtained, calls[1], resume(calls[1], cache).call)
  /\ UNCHANGED <<lastDiff, decoded, resolved, held, storage, bus>>

NextShadow ==
  \/ \E d \in DeviceIds, m \in ModAddrs : Get(d, m)
  \/ \E d \in DeviceIds, m \in ModAddrs :
       \E map \in CallerMaps(m) : Put(d, m, map)
  \/ \E d \in DeviceIds, m \in ModAddrs : Clear(d, m)
  \/ ClearAll
  \/ \E im \in OverlapMsgs : CallHeld(im)
  \/ ResumeHeld
  \/ Deliver(1)

SpecShadow == Init /\ [][NextShadow]_vars

-----------------------------------------------------------------------------
(* Properties *)

Returned(call) == call.pc = "settled" /\ call.outcome = "fulfilled"

\* The events of one type a call returned for a module address
EventsFor(call, type, modAddr) ==
  SelectSeq(call.results, LAMBDA e : e.type = type /\ e.identity.modAddr = modAddr)

\* The shadow a module had when the call was made: its positions, <<>> if absent
PreShadow(call, deviceId, modAddr) ==
  IF createKey(deviceId, modAddr) \in DOMAIN call.pre
  THEN call.pre[createKey(deviceId, modAddr)]
  ELSE <<>>

HadShadow(call, deviceId, modAddr) == createKey(deviceId, modAddr) \in DOMAIN call.pre

\* A stored map as a mapping uPos -> TagData, without its insertion order
AsMapping(map) == [u \in MapKeys(map) |-> MapTag(map, u)]

\* The items of a snapshot event as a mapping uPos -> TagData
SnapshotMapping(e) ==
  LET items == e.payload.value.items
  IN [u \in {items[i].uPos : i \in 1..Len(items)} |->
        LET i == CHOOSE j \in 1..Len(items) : items[j].uPos = u
        IN [tagId |-> items[i].tagId, alarmStatus |-> items[i].alarmStatus]]

\* A call suspended after its read goes on to write the entry it read
WillWrite(call) == IsDiff(call.msg) \/ IsSome(call.got)

(* C1: two LABEL_STATE calls for the same (deviceId, modAddr) are serialized:  *)
(* there is no state in which both have read the module's shadow and neither  *)
(* has yet made the write that follows its read.                              *)
C1_Serialized ==
  \A s, t \in CallSlots :
    (/\ s # t
     /\ calls[s].pc = "afterGet" /\ calls[t].pc = "afterGet"
     /\ WillWrite(calls[s]) /\ WillWrite(calls[t]))
    => ReadModule(calls[s]) # ReadModule(calls[t])

\* The positions of the stored shadow and of the inbound list of a diff-path call
DiffPrev(call) == MapKeys(PreShadow(call, call.msg.deviceId, call.msg.modAddr))
DiffCurr(call) == {Val(call.msg.items)[i].uPos : i \in 1..Len(Val(call.msg.items))}

(* C2: the SYS_RFID_EVENT events of a diff-path call are exactly one detached *)
(* event per uPos of the stored shadow that is not in the inbound list and    *)
(* one attached event per uPos of the inbound list that is not in the stored  *)
(* shadow: none for a uPos in both, none twice, also when the list names a    *)
(* uPos more than once.                                                       *)
C2_DiffComplete ==
  \A s \in CallSlots :
    (Returned(calls[s]) /\ IsDiff(calls[s].msg)) =>
      LET call == calls[s]
          ev == EventsFor(call, "SYS_RFID_EVENT", call.msg.modAddr)
          detached == DiffPrev(call) \ DiffCurr(call)
          attached == DiffCurr(call) \ DiffPrev(call)
      IN /\ {<<ev[i].payload.value.action, ev[i].payload.value.uPos>> : i \in 1..Len(ev)}
              = ({"detached"} \X detached) \cup ({"attached"} \X attached)
         /\ Len(ev) = Cardinality(detached) + Cardinality(attached)
         /\ \A i \in 1..Len(ev) : ev[i].identity.sensorAddr = ev[i].payload.value.uPos
         /\ Len(SelectSeq(call.results, LAMBDA e : e.type = "SYS_RFID_EVENT")) = Len(ev)

\* a list naming position 3 twice, against a shadow holding positions 3 and 5
C2_Witness ==
  /\ Returned(calls[1]) /\ IsDiff(calls[1].msg)
  /\ Len(Val(calls[1].msg.items)) = 2
  /\ DiffCurr(calls[1]) = {3}
  /\ DiffPrev(calls[1]) = {3, 5}

(* C3: a diff-path call that repeats the item list of the last completed      *)
(* diff-path call of its module, with no other call for the module in between, *)
(* returns no SYS_RFID_EVENT and exactly one SYS_RFID_SNAPSHOT, and leaves the *)
(* stored shadow as the first call stored it.                                 *)
C3_DiffIdempotent ==
  \A s \in CallSlots :
    (Returned(calls[s]) /\ IsDiff(calls[s].msg) /\ calls[s].repeat) =>
      LET call == calls[s]
          key == createKey(call.msg.deviceId, call.msg.modAddr)
      IN /\ \A i \in 1..Len(call.results) : call.results[i].type # "SYS_RFID_EVENT"
         /\ Len(call.results) = 1
         /\ call.results[1].type = "SYS_RFID_SNAPSHOT"
         /\ key \in DOMAIN call.pre /\ key \in DOMAIN cache
         /\ cache[key] = call.pre[key]

C3_Witness ==
  /\ Returned(calls[1]) /\ IsDiff(calls[1].msg) /\ calls[1].repeat
  /\ Len(Val(calls[1].msg.items)) = 2
  /\ DiffCurr(calls[1]) = {3, 5}

\* The module addresses a patch-path message names, and the blocks of one
BlockAddrs(im) == {Val(im.data)[i].modAddr : i \in 1..Len(Val(im.data))}
BlocksFor(im, modAddr) == SelectSeq(Val(im.data), LAMBDA b : b.modAddr = modAddr)

\* The items a message carries for a module, in list order
RECURSIVE ItemsIn(_)
ItemsIn(blocks) ==
  IF blocks = <<>> THEN <<>> ELSE Val(Head(blocks).items) \o ItemsIn(Tail(blocks))

\* Event number i of ev reports item number i of items as it came in
PassedThrough(ev, items) ==
  /\ Len(ev) = Len(items)
  /\ \A i \in 1..Len(ev) :
       /\ ev[i].payload.value =
            [action |-> items[i].action, tagId |-> items[i].tagId,
             uPos |-> items[i].uPos, alarmStatus |-> items[i].alarmStatus]
       /\ ev[i].identity.sensorAddr = items[i].uPos

(* C4: a patch-path call for a module that has no Shadow Store entry returns,  *)
(* for that module, one pass-through SYS_RFID_EVENT per item it carries, in    *)
(* list order, one SYS_REQUIRE_SYNC per block of the module (exactly one when  *)
(* the message names the module once) and no SYS_RFID_SNAPSHOT, and the key is *)
(* still absent after the call.                                               *)
C4_PatchMiss ==
  \A s \in CallSlots :
    (Returned(calls[s]) /\ IsPatch(calls[s].msg)) =>
      \A m \in BlockAddrs(calls[s].msg) :
        ~HadShadow(calls[s], calls[s].msg.deviceId, m) =>
          LET call == calls[s]
              blocks == BlocksFor(call.msg, m)
          IN /\ PassedThrough(EventsFor(call, "SYS_RFID_EVENT", m), ItemsIn(blocks))
             /\ Len(EventsFor(call, "SYS_REQUIRE_SYNC", m)) = Len(blocks)
             /\ EventsFor(call, "SYS_RFID_SNAPSHOT", m) = <<>>
             /\ createKey(call.msg.deviceId, m) \notin DOMAIN cache
             /\ (Len(Val(call.msg.data)) = 1 =>
                   /\ Len(call.results) = Len(ItemsIn(blocks)) + 1
                   /\ call.results[Len(call.results)].type = "SYS_REQUIRE_SYNC")

\* one block of two items for a module without an entry
C4_Witness ==
  /\ Returned(calls[1]) /\ IsPatch(calls[1].msg)
  /\ Len(Val(calls[1].msg.data)) = 1
  /\ Val(calls[1].msg.data)[1].modAddr = 1
  /\ Len(Val(Val(calls[1].msg.data)[1].items)) = 2
  /\ ~HadShadow(calls[1], "d1", 1)
  /\ Len(calls[1].results) = 3

\* The mapping that results from applying items to the shadow S in list order:
\* the last attached or detached item of a position decides it
Applied(S, items) ==
  LET decides(u) == {i \in 1..Len(items) :
                       items[i].uPos = u /\ items[i].action \in {"attached", "detached"}}
      last(u) == CHOOSE i \in decides(u) : \A j \in decides(u) : j <= i
      keys == {u \in MapKeys(S) \cup {items[i].uPos : i \in 1..Len(items)} :
                 IF decides(u) = {} THEN u \in MapKeys(S)
                 ELSE items[last(u)].action = "attached"}
  IN [u \in keys |->
        IF decides(u) = {} THEN MapTag(S, u)
        ELSE [tagId |-> items[last(u)].tagId, alarmStatus |-> items[last(u)].alarmStatus]]

(* C5: a patch-path call for a module whose shadow S exists stores, and reports *)
(* in its last snapshot for the module, the mapping obtained by applying the   *)
(* inbound items to S in list order; it returns one pass-through               *)
(* SYS_RFID_EVENT per item and, per block, one SYS_RFID_SNAPSHOT that follows  *)
(* the block's pass-through events, and no SYS_REQUIRE_SYNC.  For S = {3, 5}   *)
(* and one detach of position 3 the snapshot holds exactly {5} and there is    *)
(* exactly one detached event, for position 3.                                *)
C5_PatchHit ==
  \A s \in CallSlots :
    (Returned(calls[s]) /\ IsPatch(calls[s].msg)) =>
      \A m \in BlockAddrs(calls[s].msg) :
        HadShadow(calls[s], calls[s].msg.deviceId, m) =>
          LET call == calls[s]
              key == createKey(call.msg.deviceId, m)
              blocks == BlocksFor(call.msg, m)
              items == ItemsIn(blocks)
              S == PreShadow(call, call.msg.deviceId, m)
              ev == SelectSeq(call.results, LAMBDA e : e.identity.modAddr = m)
              snaps == EventsFor(call, "SYS_RFID_SNAPSHOT", m)
          IN /\ key \in DOMAIN cache
             /\ AsMapping(cache[key]) = Applied(S, items)
             /\ PassedThrough(EventsFor(call, "SYS_RFID_EVENT", m), items)
             /\ Len(snaps) = Len(blocks)
             /\ EventsFor(call, "SYS_REQUIRE_SYNC", m) = <<>>
             /\ ev[Len(ev)].type = "SYS_RFID_SNAPSHOT"
             /\ SnapshotMapping(ev[Len(ev)]) = Applied(S, items)
             /\ Len(ev[Len(ev)].payload.value.items) = Cardinality(DOMAIN Applied(S, items))
             /\ (Len(blocks) = 1 =>
                   /\ Len(ev) = Len(items) + 1
                   /\ \A i \in 1..Len(items) : ev[i].type = "SYS_RFID_EVENT")
             /\ ((/\ MapKeys(S) = {3, 5} /\ Len(Val(call.msg.data)) = 1 /\ Len(items) = 1
                  /\ items[1].action = "detached" /\ items[1].uPos = 3) =>
                   /\ DOMAIN SnapshotMapping(snaps[1]) = {5}
                   /\ Len(snaps[1].payload.value.items) = 1
                   /\ Len(call.results) = 2
                   /\ call.results[1].type = "SYS_RFID_EVENT"
                   /\ call.results[1].payload.value.action = "detached"
                   /\ call.results[1].payload.value.uPos = 3)

\* the shadow holds positions 3 and 5 and the message detaches position 3
C5_Witness ==
  /\ Returned(calls[1]) /\ IsPatch(calls[1].msg)
  /\ Len(Val(calls[1].msg.data)) = 1
  /\ Val(calls[1].msg.data)[1].modAddr = 1
  /\ Val(calls[1].msg.data)[1].items =
       Some(<<[uPos |-> 3, tagId |-> "A", alarmStatus |-> 0, action |-> "detached"]>>)
  /\ MapKeys(PreShadow(calls[1], "d1", 1)) = {3, 5}
  /\ MapKeys(cache[createKey("d1", 1)]) = {5}

(* C6: every intermediate message Adapter A returns is dispatched under the   *)
(* type name the adapter gave it: the call made for a decoded 0xBB frame       *)
(* returns one SYS_RFID_SNAPSHOT and has written the module's shadow, the call *)
(* made for a decoded 0xBA or 0xAA frame returns one SYS_STATE_CHANGE, and no  *)
(* decoded frame normalizes to an empty sequence.                             *)
C6_AdapterDispatched ==
  \A s \in CallSlots :
    (calls[s].pc = "settled" /\ calls[s].frame # <<>>) =>
      LET call == calls[s]
          header == readUInt8(call.frame, 0)
      IN /\ Returned(call)
         /\ call.results # <<>>
         /\ (header = 187 =>
               /\ Len(SelectSeq(call.results, LAMBDA e : e.type = "SYS_RFID_SNAPSHOT")) = 1
               /\ createKey(call.msg.deviceId, call.msg.modAddr) \in DOMAIN cache)
         /\ (header \in {186, 170} =>
               /\ Len(call.results) = 1
               /\ call.results[1].type = "SYS_STATE_CHANGE")

(* C7: normalize never fails past its boundary: every call, also one for a     *)
(* message that lacks the item list or module list of its type, settles        *)
(* fulfilled, and never with a rejected result.                               *)
C7_NeverRejects ==
  \A s \in CallSlots : calls[s].pc = "settled" => calls[s].outcome = "fulfilled"

(* C8: a call that does not return its events fails closed: no Shadow Store    *)
(* entry the message names differs from its value before the call.            *)
C8_FailsClosed ==
  \A s \in CallSlots :
    (calls[s].pc = "settled" /\ calls[s].outcome # "fulfilled") =>
      Restrict(cache, MsgKeys(calls[s].msg)) = calls[s].pre

(* C9: once a diff-path call for a key has completed, the key keeps its Shadow *)
(* Store entry: every later patch-path call reads an entry for it (a cache     *)
(* hit), and a patch-path call that returns has, for each such module, one     *)
(* SYS_RFID_SNAPSHOT per block and no SYS_REQUIRE_SYNC.  (A call that does not *)
(* return is the case of C7.)                                                 *)
C9_SeededKeyStays ==
  /\ \A k \in seeded : k \in DOMAIN cache
  /\ \A s \in CallSlots :
       (/\ IsPatch(calls[s].msg) /\ calls[s].pc = "afterGet"
        /\ createKey(ReadModule(calls[s])[1], ReadModule(calls[s])[2]) \in seeded)
       => IsSome(calls[s].got)
  /\ \A s \in CallSlots :
       (Returned(calls[s]) /\ IsPatch(calls[s].msg)) =>
         \A m \in BlockAddrs(calls[s].msg) :
           createKey(calls[s].msg.deviceId, m) \in seeded =>
             /\ Len(EventsFor(calls[s], "SYS_RFID_SNAPSHOT", m))
                  = Len(BlocksFor(calls[s].msg, m))
             /\ EventsFor(calls[s], "SYS_REQUIRE_SYNC", m) = <<>>

\* a patch-path call for a module that a diff-path call left with an empty shadow
C9_Witness ==
  /\ Returned(calls[1]) /\ IsPatch(calls[1].msg)
  /\ Len(Val(calls[1].msg.data)) = 1
  /\ Val(calls[1].msg.data)[1].modAddr = 1
  /\ Len(Val(Val(calls[1].msg.data)[1].items)) = 1
  /\ createKey("d1", 1) \in seeded
  /\ PreShadow(calls[1], "d1", 1) = <<>>
  /\ HadShadow(calls[1], "d1", 1)
  /\ Len(EventsFor(calls[1], "SYS_RFID_SNAPSHOT", 1)) = 1

\* A call run without interruption from its start to its settlement
RECURSIVE RunOn(_, _)
RunOn(call, c) ==
  IF InProgress(call)
  THEN LET r == resume(call, c) IN RunOn(r.call, r.cache)
  ELSE Step(call, c)

\* normalize(im) run alone on the cache c
Alone(im, c) ==
  LET r == normalize([Idle EXCEPT !.msg = im], c) IN RunOn(r.call, r.cache)

\* The slot's call settles in this step
Settles(s) == calls[s].pc # "settled" /\ calls'[s].pc = "settled"

\* The slot's call starts or runs on in this step
Runs(s) == calls'[s] # calls[s] /\ calls'[s].pc # "idle"

(* C10: overlapping calls for different keys are independent.  A call that     *)
(* overlapped only calls for other modules settles with the events and the     *)
(* outcome it has when it runs alone on the entries its message names as they  *)
(* were when it was made, and leaves those entries as the run alone does; and  *)
(* a step changes a Shadow Store entry only if the call that takes the step    *)
(* names the entry's key.                                                     *)
C10_Independent ==
  [][\A s \in CallSlots :
       /\ (Settles(s) /\ ~calls'[s].clash) =>
            LET call == calls'[s]
                alone == Alone(call.msg, call.pre)
            IN /\ call.results = alone.call.results
               /\ call.outcome = alone.call.outcome
               /\ Restrict(cache', MsgKeys(call.msg)) = alone.cache
       /\ Runs(s) =>
            \A k \in DOMAIN cache \cup DOMAIN cache' :
              (k \notin DOMAIN cache \/ k \notin DOMAIN cache' \/ cache'[k] # cache[k])
              => k \in MsgKeys(calls'[s].msg)
    ]_vars

\* a call has settled after overlapping a call for another module, which is
\* still in progress and has written its own entry
C10_Witness ==
  /\ Returned(calls[1]) /\ calls[1].overlapped /\ ~calls[1].clash
  /\ calls[1].results # <<>>
  /\ calls[2].pc = "afterSet" /\ calls[2].overlapped /\ ~calls[2].clash
  /\ ModulesOf(calls[1].msg) \cap ModulesOf(calls[2].msg) = {}

-----------------------------------------------------------------------------
(* The adapters and the telemetry events, checked under SpecDecode *)

\* The handler received a binary frame, on a topic of the V5008 family
IsBinary == decoded.topic # <<>> /\ decoded.topic[1] = "V5008Upload"

\* The handler received a JSON text, on a topic of the V6800 family
IsJson == decoded.topic # <<>> /\ decoded.topic[1] = "V6800Upload"

\* The handler decoded a frame received on a topic of this suffix and the call
\* it made has returned
Normalized(suffix) ==
  /\ Returned(calls[1])
  /\ decoded.topic = Topic(suffix)
  /\ IsSome(decoded.parsedData)

\* The sensor slots a TemHum (5 bytes a slot, 6 slots) or Noise (3 bytes a
\* slot, 3 slots) frame holds between the module id and the message id
SlotWidth(suffix) == IF suffix = "TemHum" THEN 5 ELSE 3
SlotLimit(suffix) == IF suffix = "TemHum" THEN 6 ELSE 3
SlotCount(suffix, frame) ==
  LET n == (Len(frame) - 9) \div SlotWidth(suffix)
  IN IF n > SlotLimit(suffix) THEN SlotLimit(suffix) ELSE n

\* The index (from 1) of the first byte of slot i
SlotAt(suffix, i) == 6 + (i - 1) * SlotWidth(suffix)

\* The slots of sensor address a whose byte pair for `key` is not (0, 0)
ReadingSlots(suffix, frame, a, key) ==
  LET at == IF key = "humidity" THEN 3 ELSE 1
  IN {i \in 1..SlotCount(suffix, frame) :
        /\ frame[SlotAt(suffix, i)] = a
        /\ <<frame[SlotAt(suffix, i) + at], frame[SlotAt(suffix, i) + at + 1]>> # <<0, 0>>}

TelemetryOf(call, a, key) ==
  SelectSeq(call.results,
            LAMBDA e : /\ e.type = "SYS_TELEMETRY"
                       /\ e.identity.sensorAddr = a
                       /\ e.payload.key = key)

(* C11: when a decoded TemHum or Noise frame has been normalized, every        *)
(* SYS_TELEMETRY event carries a number, and there are no more events for a    *)
(* sensor address and a key than the frame has slots of that address whose     *)
(* byte pair for the key is not (0, 0): a slot that reads (0, 0) produces no   *)
(* event.                                                                      *)
C11_NoReadingNoEvent ==
  \A suffix \in {"TemHum", "Noise"} :
    Normalized(suffix) =>
      /\ \A k \in 1..Len(calls[1].results) :
           calls[1].results[k].type = "SYS_TELEMETRY" =>
             calls[1].results[k].payload.value.js = "number"
      /\ \A a \in 0..255, key \in {"temperature", "humidity", "noise"} :
           Len(TelemetryOf(calls[1], a, key))
             <= Cardinality(ReadingSlots(suffix, decoded.message, a, key))

\* The decimal numeral of the big-endian unsigned 32-bit value of four bytes.
\* The value is 100000 * high + low; it is never formed as one number.
UnsignedDecimal(bytes) ==
  LET upper == bytes[1] * 256 + bytes[2]
      lower == bytes[3] * 256 + bytes[4]
      x == upper * 6553                        \* value = 10 * x + y
      y == upper * 6 + lower
      rest == (x % 10000) * 10 + y
      high == (x \div 10000) + (rest \div 100000)
      low == rest % 100000
      Pad5(n) == (IF n < 10 THEN "0000" ELSE IF n < 100 THEN "000"
                  ELSE IF n < 1000 THEN "00" ELSE IF n < 10000 THEN "0" ELSE "")
                 \o ToString(n)
  IN IF high = 0 THEN ToString(low) ELSE ToString(high) \o Pad5(low)

\* The handler decoded a frame of this leading byte
DecodedHeader(header) ==
  /\ IsBinary
  /\ IsSome(decoded.parsedData)
  /\ Len(decoded.message) >= 1
  /\ decoded.message[1] = header

\* The frames that are not cut short
WholeFrames ==
  TemHumFrames \cup CornerFrames \cup NoiseFrames \cup HeartbeatFrames
  \cup LabelFrames \cup DoorFrames \cup AckFrames

LastFour(frame) == SubSeq(frame, Len(frame) - 3, Len(frame))

(* C12: every 4-byte identifier of a decoded whole frame is the decimal        *)
(* numeral of its big-endian unsigned 32-bit value: the message id (last four  *)
(* bytes) of every frame, the module id of a door state frame, and the module  *)
(* id of every module of a heartbeat is that of one of the frame's records.    *)
C12_UnsignedIds ==
  (IsBinary /\ IsSome(decoded.parsedData) /\ decoded.message \in WholeFrames) =>
    LET frame == decoded.message
        im == Val(decoded.parsedData)
    IN /\ Len(frame) >= 4 => im.messageId = UnsignedDecimal(LastFour(frame))
       /\ (DecodedHeader(186) /\ Len(frame) >= 11) =>
            im.modId = UnsignedDecimal(SubSeq(frame, 3, 6))
       /\ DecodedHeader(204) =>
            \A k \in 1..Len(im.modules) :
              \E r \in 0..9 :
                /\ 1 + 6 * r + 6 <= Len(frame)
                /\ frame[2 + 6 * r] = im.modules[k].modAddr
                /\ im.modules[k].modId
                     = UnsignedDecimal(SubSeq(frame, 3 + 6 * r, 6 + 6 * r))

\* The suffix of the topic the handler received the frame on
DecodedSuffix == IF Len(decoded.topic) >= 3 THEN decoded.topic[3] ELSE ""

\* The least number of bytes of a frame of the type its leading byte (or, for
\* sensor frames, its topic) declares: the fixed header fields and the 4-byte
\* message id.  0 for a frame that declares no type.
MinLength(suffix, frame) ==
  IF frame # <<>> /\ frame[1] \in {204, 203} THEN 1 + 4
  ELSE IF frame # <<>> /\ frame[1] = 187 THEN 1 + 1 + 4 + 1 + 1 + 1 + 4
  ELSE IF frame # <<>> /\ frame[1] = 186 THEN 1 + 1 + 4 + 1 + 4
  ELSE IF frame # <<>> /\ frame[1] = 170 THEN 1 + 4 + 1 + 4
  ELSE IF suffix \in {"TemHum", "Noise"} THEN 1 + 4 + 4
  ELSE 0

(* C13: a frame with fewer bytes than the minimum for its declared type (the   *)
(* fixed header fields and the trailing 4-byte message id) is not decoded:     *)
(* parse returns null for it.                                                  *)
C13_TruncatedFails ==
  (IsBinary /\ Len(decoded.message) < MinLength(DecodedSuffix, decoded.message))
    => ~IsSome(decoded.parsedData)

\* The canonical type the leading bytes of a frame declare, "" if none
DeclaredType(frame) ==
  IF frame = <<>> THEN ""
  ELSE IF frame[1] \in {204, 203} THEN "HEARTBEAT"
  ELSE IF frame[1] = 187 THEN "LABEL_STATE"
  ELSE IF frame[1] = 186 THEN "DOOR_STATE"
  ELSE IF frame[1] = 170 THEN "OPE_ACK"
  ELSE IF frame[1] = 239 /\ Len(frame) >= 2 /\ frame[2] = 1 THEN "DEVICE_INFO"
  ELSE IF frame[1] = 239 /\ Len(frame) >= 2 /\ frame[2] = 2 THEN "MODULE_INFO"
  ELSE ""

\* Whole frames of every leading byte, each received on several topics
TypedFrames ==
  WholeFrames \cup {OneLabelFrame, OneHeartbeatFrame, OneDoorFrame, OneAckFrame,
                    <<203>> \o Tail(OneHeartbeatFrame), DeviceInfoFrame, ModuleInfoFrame}

(* C14: a whole frame whose leading byte (for 0xEF, leading two bytes)         *)
(* declares a type is decoded as a message of that type, whatever the suffix   *)
(* of the topic it was received on.                                            *)
C14_TypeFromLeadingByte ==
  (IsBinary /\ decoded.message \in TypedFrames
     /\ DeclaredType(decoded.message) # "") =>
    /\ IsSome(decoded.parsedData)
    /\ Val(decoded.parsedData).messageType = DeclaredType(decoded.message)

\* The number of complete 6-byte records of a heartbeat frame between the
\* leading byte and the message id, at most 10
RecordCount(frame) ==
  LET k == (Len(frame) - 5) \div 6 IN IF k > 10 THEN 10 ELSE k

\* Record r (from 1) of a heartbeat frame, the module id as the adapter
\* renders four bytes
HeartbeatRecord(frame, r) ==
  [modAddr |-> frame[2 + 6 * (r - 1)],
   modId |-> NumberToString(readBigUIntBE(frame, 2 + 6 * (r - 1))),
   uTotal |-> frame[7 + 6 * (r - 1)]]

RECURSIVE KeptRecords(_, _)
KeptRecords(frame, r) ==
  IF r > RecordCount(frame) THEN <<>>
  ELSE (IF HeartbeatRecord(frame, r).modAddr \in 1..5
        THEN <<HeartbeatRecord(frame, r)>> ELSE <<>>)
       \o KeptRecords(frame, r + 1)

(* C15: the module list decoded from a whole heartbeat frame is, in frame      *)
(* order, exactly the complete records whose address is in 1..5, the last      *)
(* record of a frame with no spare bytes before the message id included.       *)
C15_HeartbeatRecords ==
  (DecodedHeader(204) /\ decoded.message \in HeartbeatFrames) =>
    Val(decoded.parsedData).modules = KeptRecords(decoded.message, 1)

\* The fields of a whole 0xBB frame: leading byte, module address, module id
\* (as the adapter renders four bytes), reserved byte, slot count, online
\* count, then one 6-byte record per online tag
LabelFields(frame) ==
  [modAddr |-> frame[2],
   modId |-> NumberToString(readBigUIntBE(frame, 2)),
   uTotal |-> frame[8],
   onlineCount |-> frame[9],
   items |-> [r \in 1..frame[9] |->
                [uPos |-> frame[10 + 6 * (r - 1)],
                 alarmStatus |-> frame[11 + 6 * (r - 1)],
                 tagId |-> HexUpper(SubSeq(frame, 12 + 6 * (r - 1), 15 + 6 * (r - 1)))]]]

\* The same fields of a decoded message
FieldsOf(im) ==
  [modAddr |-> im.modAddr, modId |-> im.modId, uTotal |-> im.uTotal,
   onlineCount |-> im.onlineCount,
   items |-> IF IsSome(im.items) THEN Val(im.items) ELSE <<>>]

\* What the routes of V5008Parser that handle a 0xBB frame return for it:
\* parse -> parseLabelState, and parseOpeAck -> parseRfidEvent
LabelRoutes(topic, frame) ==
  {V5008Parser_parse(topic, frame),
   parseRfidEvent(frame, NullIM, NumberToString(readBigUIntBE(frame, Len(frame) - 4)))}

(* C16: a whole frame that begins with 0xBB is decoded with modAddr from the   *)
(* byte after the leading byte, modId from the next four bytes, then the       *)
(* reserved byte, uTotal, onlineCount and one item per 6-byte record; every    *)
(* route of the adapter that handles the frame gives these fields.             *)
C16_LabelFields ==
  (IsBinary /\ decoded.message \in LabelFrames) =>
    /\ IsSome(decoded.parsedData)
    /\ \A route \in LabelRoutes(decoded.topic, decoded.message) :
         IsSome(route) /\ FieldsOf(Val(route)) = LabelFields(decoded.message)

\* The handler decoded a JSON object received on a topic of this suffix
DecodedJson(suffix) ==
  /\ IsJson
  /\ decoded.topic[3] = suffix
  /\ IsSome(decoded.parsedData)

\* The tag records of module block i of the JSON object received, and the
\* items decoded for the block
RawTags(i) == decoded.message.value.data[i].u_data
DecodedItems(i) == Val(Val(Val(decoded.parsedData).data)[i].items)

\* (old_state, new_state) of a tag record, <<>> when a flag is missing
Flags(tagData) ==
  IF {"old_state", "new_state"} \subseteq DOMAIN tagData
  THEN <<tagData.old_state, tagData.new_state>>
  ELSE <<>>

(* C17: in a decoded LabelState JSON message every tag record has its item,   *)
(* in order, and the item's action is 'attached' exactly when (old_state,      *)
(* new_state) = (0, 1), 'detached' exactly when it is (1, 0), and null         *)
(* otherwise (equal flags, a missing flag).                                    *)
C17_ActionInferred ==
  DecodedJson("LabelState") =>
    \A i \in 1..Len(decoded.message.value.data) :
      /\ Len(DecodedItems(i)) = Len(RawTags(i))
      /\ \A j \in 1..Len(RawTags(i)) :
           LET item == DecodedItems(i)[j]
               flags == Flags(RawTags(i)[j])
           IN /\ item.uPos = RawTags(i)[j].u_index
              /\ item.tagId = RawTags(i)[j].tag_code
              /\ (item.action = "attached") <=> (flags = <<0, 1>>)
              /\ (item.action = "detached") <=> (flags = <<1, 0>>)
              /\ item.action \in {"attached", "detached", "null"}

\* A message was decoded with a detached item next to an item without action
\* whose record lacks a flag
C17_Witness ==
  /\ DecodedJson("LabelState")
  /\ \E j, k \in 1..Len(RawTags(1)) :
       /\ DecodedItems(1)[j].action = "detached"
       /\ Flags(RawTags(1)[k]) = <<>>
       /\ DecodedItems(1)[k].action = "null"

(* C18: a JSON text that is malformed, and any text received on a topic whose  *)
(* suffix is not one of HeartBeat, LabelState, TemHum, Door, Init, OpeAck      *)
(* ('init' and 'HEARTBEAT' included), is not decoded: parse returns null.      *)
C18_UnknownSuffixFails ==
  (IsJson /\ (decoded.message = Malformed \/ decoded.topic[3] \notin MappedSuffixes))
    => ~IsSome(decoded.parsedData)

\* The handler decoded a whole TemHum frame
DecodedTemHum ==
  /\ IsBinary
  /\ decoded.topic[3] = "TemHum"
  /\ IsSome(decoded.parsedData)
  /\ decoded.message \in TemHumFrames \cup CornerFrames

\* The integer byte of a pair as a two's complement number
Signed(byte) == IF byte >= 128 THEN byte - 256 ELSE byte

\* A decoded value is what the bytes (i, f) stand for: null exactly for (0, 0),
\* else a number of magnitude |i| + f / 100 (in hundredths), negative exactly
\* when the signed byte i is negative
Stands(value, i, f) ==
  /\ (value = JsNull) <=> (i = 0 /\ f = 0)
  /\ value # JsNull =>
       /\ value.js = "number"
       /\ (IF value.hundredths < 0 THEN -value.hundredths ELSE value.hundredths)
            = (IF Signed(i) < 0 THEN -Signed(i) ELSE Signed(i)) * 100 + f
       /\ (value.hundredths < 0) <=> (Signed(i) < 0)

(* C19: in a decoded TemHum frame the temperature and the humidity of every    *)
(* slot of a sensor address in 0x0A..0x0F are the signed-decimal values of     *)
(* their byte pairs: null exactly when both bytes are 0, otherwise magnitude   *)
(* |i| + f/100 with i a signed byte and f unsigned, negative exactly when i    *)
(* is negative; (0, 0) never decodes to the number zero.                       *)
C19_SignedDecimal ==
  DecodedTemHum =>
    LET frame == decoded.message
        sensors == Val(Val(decoded.parsedData).sensors)
    IN /\ Len(sensors) = SlotCount("TemHum", frame)
       /\ \A k \in 1..Len(sensors) :
            LET at == SlotAt("TemHum", k)
            IN frame[at] \in 10..15 =>
                 /\ Stands(sensors[k].temp, frame[at + 1], frame[at + 2])
                 /\ Stands(sensors[k].hum, frame[at + 3], frame[at + 4])

\* A slot with the bytes (0xEC, 50) and (0, 0) was decoded: -20.50 and null
C19_Witness ==
  /\ DecodedTemHum
  /\ \E k \in 1..Len(Val(Val(decoded.parsedData).sensors)) :
       LET at == SlotAt("TemHum", k)
           sensor == Val(Val(decoded.parsedData).sensors)[k]
       IN /\ SubSeq(decoded.message, at, at + 4) = <<10, 236, 50, 0, 0>>
          /\ sensor.temp = JsNumber(-2050)
          /\ sensor.hum = JsNull

\* A heartbeat message that carries its power metadata: of the canonical type
\* (either spelling the normalizer switches on), or a V5008 heartbeat typed by
\* its topic suffix
IsHeartbeat(im) ==
  /\ ~im.isNull
  /\ IsSome(im.meta)
  /\ \/ im.messageType \in {"HEARTBEAT", "HeartBeat"}
     \/ im.deviceType = "V5008" /\ im.messageType = "OpeAck"

\* The keys of the SYS_TELEMETRY events the metadata calls for, in order
PowerKeys(meta) ==
  (IF IsSome(meta.voltage) THEN <<"voltage">> ELSE <<>>)
  \o (IF IsSome(meta.current) THEN <<"current">> ELSE <<>>)

(* C20: a call made with a heartbeat message of either device type returns     *)
(* the voltage and current SYS_TELEMETRY events of the fields present and      *)
(* then, as its last event, the one SYS_LIFECYCLE event, whose value is        *)
(* "online" if mainPower is true and "backup_power" otherwise.                 *)
C20_OneLifecycle ==
  (calls[1].pc = "settled" /\ IsHeartbeat(calls[1].msg)) =>
    LET results == calls[1].results
        meta == Val(calls[1].msg.meta)
        keys == PowerKeys(meta)
    IN /\ Returned(calls[1])
       /\ Len(results) = Len(keys) + 1
       /\ \A k \in 1..Len(keys) :
            /\ results[k].type = "SYS_TELEMETRY"
            /\ results[k].payload.key = keys[k]
       /\ results[Len(results)].type = "SYS_LIFECYCLE"
       /\ results[Len(results)].payload.value
            = [scalar |-> IF meta.mainPower THEN "online" ELSE "backup_power"]

\* The module blocks of the message the V6800 adapter decoded
DecodedBlocks == Val(Val(decoded.parsedData).data)

\* The call returned a SYS_STATE_CHANGE event of this key, module address and
\* value
StateChanged(key, modAddr, value) ==
  \E k \in 1..Len(calls[1].results) :
    /\ calls[1].results[k].type = "SYS_STATE_CHANGE"
    /\ calls[1].results[k].payload.key = key
    /\ calls[1].results[k].identity.modAddr = modAddr
    /\ calls[1].results[k].payload.value = [scalar |-> value]

(* C21: when the DOOR_STATE (OPE_ACK) message the V6800 adapter decoded has    *)
(* been normalized, the call has returned, for every decoded module block, a   *)
(* SYS_STATE_CHANGE event of the block's module address whose value is 1 if    *)
(* the block's door state is "01" (its result is "Success") and 0 otherwise.   *)
C21_StateChangeValue ==
  /\ (DecodedJson("Door") /\ calls[1].pc = "settled") =>
       /\ Returned(calls[1])
       /\ \A i \in 1..Len(DecodedBlocks) :
            StateChanged("door_state", DecodedBlocks[i].modAddr,
                         IF DecodedBlocks[i].doorState = "01" THEN 1 ELSE 0)
  /\ (DecodedJson("OpeAck") /\ calls[1].pc = "settled") =>
       /\ Returned(calls[1])
       /\ \A i \in 1..Len(DecodedBlocks) :
            StateChanged("operation_result", DecodedBlocks[i].modAddr,
                         IF DecodedBlocks[i].result = "Success" THEN 1 ELSE 0)


\* the statement pair `new ParserRegistry()`, `getParser(topic)` has run
Resolved == IsSome(resolved)

\* the registered class answers canHandle(topic) with true
Handles(ParserClass, topic) ==
  LET can == canHandle(ParserClass, topic)
  IN ~can.threw /\ can.value

\* the value getParser returns for a string topic over the list parsers:
\* an instance of the first class that handles it, null if none does
FirstMatch(parsers, topic, value) ==
  \/ /\ value = JsNull
     /\ \A i \in 1..Len(parsers) : ~Handles(parsers[i], topic)
  \/ \E i \in 1..Len(parsers) :
       /\ Handles(parsers[i], topic)
       /\ \A j \in 1..(i - 1) : ~Handles(parsers[j], topic)
       /\ value = [instanceOf |-> parsers[i]]

(* C22: getParser(topic) on a constructed registry returns an instance of  *)
(* the first registered adapter whose canHandle(topic) is true, null when  *)
(* no adapter matches, and null without raising for an empty or non-string *)
(* topic.                                                                  *)
C22_FirstMatchWins ==
  Resolved =>
    LET r == Val(resolved)
    IN /\ IsSome(r.parser)
       /\ ~Val(r.parser).threw
       /\ IF Falsy(r.topic) \/ r.topic.js # "string"
          THEN Val(r.parser).value = JsNull
          ELSE FirstMatch(r.registry.value, r.topic, Val(r.parser).value)

\* the topic starts with the prefix segment followed by '/'
StartsWith(topic, prefix) ==
  topic.js = "string" /\ Len(topic.text) >= 2 /\ topic.text[1] = prefix

(* C30: new ParserRegistry() succeeds with exactly V5008Parser, then       *)
(* V6800Parser registered, and a topic starting with V5008Upload/          *)
(* (V6800Upload/) resolves to an instance of V5008Parser (V6800Parser).    *)
C30_TwoAdapters ==
  Resolved =>
    LET r == Val(resolved)
    IN /\ ~r.registry.threw
       /\ r.registry.value = <<"V5008Parser", "V6800Parser">>
       /\ StartsWith(r.topic, "V5008Upload") =>
            r.parser = Some(Completed([instanceOf |-> "V5008Parser"]))
       /\ StartsWith(r.topic, "V6800Upload") =>
            r.parser = Some(Completed([instanceOf |-> "V6800Parser"]))


(* C23: after set(deviceId, modAddr, m), whatever positions the caller     *)
(* adds to, overwrites in or deletes from its map m, get(deviceId,         *)
(* modAddr) returns the mapping m had when it was passed to set.           *)
C23_SetCopies ==
  IsSome(held) =>
    StateCache_get(cache, Val(held).deviceId, Val(held).modAddr)
      = Some(Val(held).passed)

\* the caller has changed its map after passing it to set
C23_Witness ==
  /\ IsSome(held)
  /\ Val(held).map # Val(held).passed
  /\ Val(held).passed # <<>>


\* normalize has no processor for the message: it is null, has no deviceType,
\* a deviceType other than V5008 and V6800, or a messageType its deviceType
\* has no case for
Unhandled(im) ==
  \/ im.isNull
  \/ im.deviceType \notin {"V5008", "V6800"}
  \/ /\ im.deviceType = "V5008"
     /\ im.messageType \notin
          {"OpeAck", "LabelState", "TemHum", "Noise", "HeartBeat", "HEARTBEAT"}
  \/ /\ im.deviceType = "V6800"
     /\ im.messageType \notin
          {"LABEL_STATE", "TEM_HUM", "DOOR_STATE", "INIT", "OPE_ACK", "HEARTBEAT"}

\* normalize is called in slot 1
Called == calls[1].pc = "idle" /\ calls'[1].pc # "idle"

(* C24: normalize of a message that is null, lacks deviceType, has a       *)
(* deviceType other than V5008/V6800 or a messageType its deviceType does  *)
(* not handle returns an empty array, without failing, and leaves the      *)
(* StateCache as it was.                                                   *)
C24_UnhandledIsEmpty ==
  [][(Called /\ Unhandled(calls'[1].msg)) =>
       /\ Returned(calls'[1])
       /\ calls'[1].results = <<>>
       /\ cache' = cache]_vars

\* an unhandled message with tag items has been normalized over a shadow
C24_Witness ==
  /\ calls[1].pc = "settled"
  /\ Unhandled(calls[1].msg)
  /\ ~calls[1].msg.isNull
  /\ DOMAIN cache # {}


(* C25: once a V6800 INIT message is normalized, the StateCache holds an   *)
(* entry for every module the message names (written from the message),   *)
(* so that a following patch-path call for such a module is a cache hit.   *)
C25_InitSynchronizes ==
  (/\ calls[1].pc = "settled"
   /\ calls[1].msg.deviceType = "V6800"
   /\ calls[1].msg.messageType = "INIT") =>
    /\ Returned(calls[1])
    /\ \A i \in 1..Len(calls[1].msg.modules) :
         IsSome(StateCache_get(cache, calls[1].msg.deviceId,
                               calls[1].msg.modules[i].modAddr))


\* the table the claim names for a type (none for SYS_REQUIRE_SYNC)
SinkOf(type) ==
  CASE type = "SYS_TELEMETRY" -> "iot_telemetry"
    [] type = "SYS_RFID_EVENT" -> "iot_rfid_events"
    [] type \in {"SYS_RFID_SNAPSHOT", "SYS_STATE_CHANGE", "SYS_DEVICE_INFO",
                 "SYS_LIFECYCLE"} -> "iot_device_state"
    [] OTHER -> "none"

\* the rows the statements of the last batch wrote to a table, in order
RowsIn(table) ==
  Flatten([i \in 1..Len(storage.statements) |->
             IF storage.statements[i].table = table
             THEN storage.statements[i].rows ELSE <<>>])

\* the events of the last batch of a type
BatchOf(type) == SelectSeq(storage.batch, LAMBDA item : item.type = type)

\* the row an event of the batch makes in the device-state table
StateRow(item) ==
  IdentityColumns(item) @@
  [state_type |-> item.type, json_value |-> JSON_stringify(item.payload)]

(* C26: saveBatch writes one row per SYS_TELEMETRY event to the telemetry  *)
(* table and to no other, one row per SYS_RFID_EVENT event to the RFID     *)
(* event table and to no other, one device-state upsert per                *)
(* SYS_RFID_SNAPSHOT, SYS_STATE_CHANGE, SYS_DEVICE_INFO and SYS_LIFECYCLE  *)
(* event and no other row, and nothing for a SYS_REQUIRE_SYNC event.       *)
C26_OneSinkPerType ==
  /\ Len(RowsIn("iot_telemetry")) = Len(BatchOf("SYS_TELEMETRY"))
  /\ \A i \in 1..Len(RowsIn("iot_telemetry")) :
       /\ RowsIn("iot_telemetry")[i].telemetry_key
            = BatchOf("SYS_TELEMETRY")[i].payload.key
       /\ RowsIn("iot_telemetry")[i].device_id
            = BatchOf("SYS_TELEMETRY")[i].identity.deviceId
  /\ Len(RowsIn("iot_rfid_events")) = Len(BatchOf("SYS_RFID_EVENT"))
  /\ \A i \in 1..Len(RowsIn("iot_rfid_events")) :
       RowsIn("iot_rfid_events")[i].tag_id
         = BatchOf("SYS_RFID_EVENT")[i].payload.value.tagId
  /\ \A type \in {storage.batch[i].type : i \in 1..Len(storage.batch)} :
       SinkOf(type) = "iot_device_state" =>
         SelectSeq(RowsIn("iot_device_state"), LAMBDA row : row.state_type = type)
           = [i \in 1..Len(BatchOf(type)) |-> StateRow(BatchOf(type)[i])]
  /\ \A i \in 1..Len(RowsIn("iot_device_state")) :
       /\ RowsIn("iot_device_state")[i].state_type # "SYS_REQUIRE_SYNC"
       /\ Len(BatchOf(RowsIn("iot_device_state")[i].state_type)) > 0
  /\ \A i \in 1..Len(storage.statements) :
       storage.statements[i].table
         \in {"iot_telemetry", "iot_rfid_events", "iot_device_state"}

\* a batch that mixes a SYS_REQUIRE_SYNC event with events of the three
\* sinks has been saved
C26_Witness ==
  /\ BatchOf("SYS_REQUIRE_SYNC") # <<>>
  /\ Len(storage.statements) >= 2
  /\ Len(RowsIn("iot_device_state")) >= 1
  /\ Len(RowsIn("iot_rfid_events")) + Len(RowsIn("iot_telemetry")) >= 1


\* the call of slot 1 was a patch-path call that found a shadow for every
\* module it names, and it has returned
PatchHitReturned ==
  /\ Returned(calls[1])
  /\ IsPatch(calls[1].msg)
  /\ IsSome(calls[1].msg.data)
  /\ Val(calls[1].msg.data) # <<>>
  /\ \A m \in BlockAddrs(calls[1].msg) :
       HadShadow(calls[1], calls[1].msg.deviceId, m)

\* the message of slot 1 attaches or detaches at least one tag
Patches(im) ==
  \E i \in 1..Len(Val(im.data)) :
    /\ IsSome(Val(im.data)[i].items)
    /\ \E j \in 1..Len(Val(Val(im.data)[i].items)) :
         Val(Val(im.data)[i].items)[j].action \in {"attached", "detached"}

\* the same message delivered once more, on the Shadow Store as it is now
Replay == Alone(calls[1].msg, cache)

\* the statement of C27 as it stands: the second delivery of an attach/detach
\* message leaves a shadow that differs from the one after the first
C27_ReplayChangesShadow ==
  (PatchHitReturned /\ Patches(calls[1].msg)) =>
    \E key \in DOMAIN cache :
      AsMapping(Replay.cache[key]) # AsMapping(cache[key])

(* C27: replaying the same patch-path message against an existing shadow   *)
(* is idempotent on the Shadow Store: after the second delivery every      *)
(* entry maps the same positions to the same tags as after the first (at   *)
(* most the order in which the Map lists the positions differs); only the  *)
(* events are returned once more, as many as the first delivery returned.  *)
C27_ReplayKeepsShadow ==
  (PatchHitReturned /\ Patches(calls[1].msg)) =>
    /\ DOMAIN Replay.cache = DOMAIN cache
    /\ \A key \in DOMAIN cache :
         AsMapping(Replay.cache[key]) = AsMapping(cache[key])
    /\ Returned(Replay.call)
    /\ Len(Replay.call.results) = Len(calls[1].results)

\* a delivery that changed the shadow: it attached a tag at a free position
\* and detached an occupied one
C27_Witness ==
  /\ PatchHitReturned
  /\ Len(Val(calls[1].msg.data)) = 1
  /\ Val(calls[1].msg.data)[1].modAddr = 1
  /\ cache["d1:1"] # PreShadow(calls[1], "d1", 1)
  /\ \E i, j \in 1..Len(Val(Val(calls[1].msg.data)[1].items)) :
       LET items == Val(Val(calls[1].msg.data)[1].items)
       IN /\ items[i].action = "attached"
          /\ ~MapHas(PreShadow(calls[1], "d1", 1), items[i].uPos)
          /\ items[j].action = "detached"
          /\ MapHas(PreShadow(calls[1], "d1", 1), items[j].uPos)


\* the call of slot 1 resent the snapshot of the last completed diff-path call
\* of its module, a snapshot of at least one tag, and has returned
Resent ==
  /\ Returned(calls[1])
  /\ IsDiff(calls[1].msg)
  /\ calls[1].repeat
  /\ DiffCurr(calls[1]) # {}

\* the events of the call of slot 1 that report the action
WithAction(action) ==
  SelectSeq(calls[1].results,
            LAMBDA e : e.type = "SYS_RFID_EVENT" /\ e.payload.value.action = action)

\* the statement of C28 as it stands: the unchanged second call returns one
\* detached and one attached event per tag and then the snapshot
C28_ResendRediffs ==
  Resent =>
    LET n == Cardinality(DiffCurr(calls[1]))
    IN /\ Len(WithAction("detached")) = n
       /\ Len(WithAction("attached")) = n
       /\ Len(calls[1].results) = 2 * n + 1
       /\ calls[1].results[Len(calls[1].results)].type = "SYS_RFID_SNAPSHOT"

(* C28: resending an identical diff-path snapshot for a module yields on   *)
(* the second, unchanged call no detached and no attached event: the call  *)
(* returns the SYS_RFID_SNAPSHOT of the tags alone (1 event, whatever the  *)
(* number of tags).                                                        *)
C28_ResendOnlySnapshot ==
  Resent =>
    /\ WithAction("detached") = <<>>
    /\ WithAction("attached") = <<>>
    /\ Len(calls[1].results) = 1
    /\ calls[1].results[1].type = "SYS_RFID_SNAPSHOT"
    /\ DOMAIN SnapshotMapping(calls[1].results[1]) = DiffCurr(calls[1])

\* a snapshot of two tags has been resent
C28_Witness ==
  /\ Resent
  /\ Cardinality(DiffCurr(calls[1])) = 2
  /\ Len(Val(calls[1].msg.items)) = 2
  /\ Val(calls[1].msg.items)[1].tagId # Val(calls[1].msg.items)[2].tagId


\* the call of slot 1 was a patch-path call of one block whose module had no
\* shadow, carrying attached items only, and it has returned
MissReturned ==
  /\ Returned(calls[1])
  /\ IsPatch(calls[1].msg)
  /\ IsSome(calls[1].msg.data)
  /\ Len(Val(calls[1].msg.data)) = 1
  /\ ~HadShadow(calls[1], calls[1].msg.deviceId, Val(calls[1].msg.data)[1].modAddr)
  /\ IsSome(Val(calls[1].msg.data)[1].items)
  /\ Val(Val(calls[1].msg.data)[1].items) # <<>>
  /\ \A i \in 1..Len(Val(Val(calls[1].msg.data)[1].items)) :
       Val(Val(calls[1].msg.data)[1].items)[i].action = "attached"

MissModule == Val(calls[1].msg.data)[1].modAddr

MissItems == Val(Val(calls[1].msg.data)[1].items)

\* the next patch-path call for the module: one tag attached at position uPos,
\* run on the Shadow Store as it is now
NextPatch(uPos) ==
  Alone(IM("V6800", "LABEL_STATE", calls[1].msg.deviceId, 0, None,
           Some(<<Block(MissModule,
                        Some(<<[uPos |-> uPos, tagId |-> "A",
                                alarmStatus |-> TagData("A").alarmStatus,
                                action |-> "attached"]>>))>>)),
        cache)

\* the SYS_RFID_SNAPSHOT events among results
Snapshots(results) == SelectSeq(results, LAMBDA e : e.type = "SYS_RFID_SNAPSHOT")

\* the statement of C29 as it stands: the call on a miss returns a snapshot of
\* its attached items besides the pass-through events and SYS_REQUIRE_SYNC,
\* and the next call returns a snapshot of the tags of both calls
C29_MissRecords ==
  MissReturned =>
    /\ Len(calls[1].results) = Len(MissItems) + 2
    /\ Len(Snapshots(calls[1].results)) = 1
    /\ DOMAIN SnapshotMapping(Snapshots(calls[1].results)[1])
         = {MissItems[i].uPos : i \in 1..Len(MissItems)}
    /\ \A u \in UPosOf(MissModule) :
         /\ Len(Snapshots(NextPatch(u).call.results)) = 1
         /\ DOMAIN SnapshotMapping(Snapshots(NextPatch(u).call.results)[1])
              = {MissItems[i].uPos : i \in 1..Len(MissItems)} \cup {u}

(* C29: a patch-path call that finds no shadow for a module records        *)
(* nothing: it returns the pass-through events and SYS_REQUIRE_SYNC only   *)
(* (2 events for one item), no SYS_RFID_SNAPSHOT, the module is still      *)
(* without a shadow, and the next patch-path call for that module is a     *)
(* miss again that returns no snapshot either.                             *)
C29_MissRecordsNothing ==
  MissReturned =>
    /\ Len(calls[1].results) = Len(MissItems) + 1
    /\ Snapshots(calls[1].results) = <<>>
    /\ calls[1].results[Len(calls[1].results)].type = "SYS_REQUIRE_SYNC"
    /\ StateCache_get(cache, calls[1].msg.deviceId, MissModule) = None
    /\ \A u \in UPosOf(MissModule) :
         /\ Returned(NextPatch(u).call)
         /\ Snapshots(NextPatch(u).call.results) = <<>>
         /\ Len(NextPatch(u).call.results) = 2
         /\ NextPatch(u).call.results[2].type = "SYS_REQUIRE_SYNC"
         /\ NextPatch(u).cache = cache

\* one tag attached at position 3 of module 2, which has no shadow, while
\* module 1 has one
C29_Witness ==
  /\ MissReturned
  /\ MissModule = 2
  /\ Len(MissItems) = 1
  /\ MissItems[1].uPos = 3
  /\ Len(calls[1].results) = 2
  /\ "d1:1" \in DOMAIN cache


\* the colour codes of a colour-query response frame: the bytes between the
\* echoed request and the message id
ColorsOf(frame) == SubSeq(frame, 7 + Len(ColorRequest), Len(frame) - 4)

(* C31: for an OPE_ACK (0xAA) frame whose echoed request begins with 0xE4, *)
(* the bytes between the echoed request and the message id are returned as *)
(* the colour list, one entry per byte in frame order, and the echoed      *)
(* request field holds the request bytes only.                             *)
C31_ColorList ==
  (IsBinary /\ decoded.message \in ColorFrames) =>
    /\ IsSome(decoded.parsedData)
    /\ Val(decoded.parsedData).colorMap = Some(ColorsOf(decoded.message))
    /\ Val(decoded.parsedData).originalReq = ColorRequest


\* the item of the inbound list that decides a position: the last one naming it
LastItemAt(items, uPos) ==
  items[CHOOSE i \in 1..Len(items) :
          /\ items[i].uPos = uPos
          /\ \A j \in 1..Len(items) : items[j].uPos = uPos => j <= i]

(* C32: after a diff-path call for a module, the stored shadow maps exactly *)
(* the uPos values of the inbound tag list to their inbound tagId and      *)
(* alarm status (the last item of a position that is named twice) and      *)
(* holds no position carried over from the previous shadow; an empty       *)
(* inbound list stores a present, empty shadow.                            *)
C32_WholesaleReplace ==
  (Returned(calls[1]) /\ IsDiff(calls[1].msg)) =>
    LET im == calls[1].msg
        items == Val(im.items)
        stored == StateCache_get(cache, im.deviceId, im.modAddr)
    IN /\ IsSome(stored)
       /\ MapKeys(Val(stored)) = DiffCurr(calls[1])
       /\ \A u \in DiffCurr(calls[1]) :
            MapTag(Val(stored), u) =
              [tagId |-> LastItemAt(items, u).tagId,
               alarmStatus |-> LastItemAt(items, u).alarmStatus]
       /\ (items = <<>> => Val(stored) = <<>>)

\* an inbound list that names position 3 alone, with another tag than the
\* previous shadow, which held positions 3 and 5
C32_Witness ==
  /\ Returned(calls[1]) /\ IsDiff(calls[1].msg)
  /\ DiffPrev(calls[1]) = {3, 5}
  /\ DiffCurr(calls[1]) = {3}
  /\ MapTag(PreShadow(calls[1], "d1", 1), 3) # MapTag(cache["d1:1"], 3)

\* an empty inbound list has replaced a shadow that held tags
C32_WitnessEmpty ==
  /\ Returned(calls[1]) /\ IsDiff(calls[1].msg)
  /\ Val(calls[1].msg.items) = <<>>
  /\ DiffPrev(calls[1]) # {}

\* The whole 6-byte tag records that fit between the 9-byte header of a label
\* frame (frame code, module address, module id, reserved byte, slot count,
\* online-tag count) and its trailing 4-byte message id
WholeRecords(frame) == (Len(frame) - 4 - 9) \div 6

SmallerOf(a, b) == IF a <= b THEN a ELSE b

(* C33: for every frame length and every value of the online-tag count byte,
   the number of items LABEL_STATE decoding returns is the smaller of the
   online-tag count and the number of whole 6-byte records that fit between
   the header and the message id, so that no record read overlaps the last 4
   bytes of the frame. *)
C33_ItemsBounded ==
  (IsBinary /\ decoded.message \in CountFrames /\ DecodedSuffix = "LabelState") =>
    /\ IsSome(decoded.parsedData)
    /\ IsSome(Val(decoded.parsedData).items)
    /\ Len(Val(Val(decoded.parsedData).items)) =
         SmallerOf(decoded.message[9], WholeRecords(decoded.message))


NoAction(items) == SelectSeq(items, LAMBDA item : item.action = "null")

Acting(items) == SelectSeq(items, LAMBDA item : item.action # "null")

\* The items of module m in a patch-path call that found the module's shadow
HitItems(m) == ItemsIn(BlocksFor(calls[1].msg, m))

HitEvents(m) == EventsFor(calls[1], "SYS_RFID_EVENT", m)

(* C34 as stated: a patch-path tag item that has no action (neither attached
   nor detached) produces no SYS_RFID_EVENT and leaves the module's shadow
   unchanged: the events of a call that found the shadow are those of its
   items that have an action. *)
C34_NoActionDropped ==
  PatchHitReturned =>
    \A m \in BlockAddrs(calls[1].msg) :
      /\ PassedThrough(HitEvents(m), Acting(HitItems(m)))
      /\ AsMapping(cache[createKey(calls[1].msg.deviceId, m)]) =
           Applied(PreShadow(calls[1], calls[1].msg.deviceId, m),
                   Acting(HitItems(m)))

(* C34 amended: a patch-path tag item that has no action leaves the module's
   shadow unchanged and is passed through all the same: the call returns one
   SYS_RFID_EVENT for it, at the item's place among the events, carrying a
   null action and the item's position, tag id and alarm status. *)
C34_NoActionPassedThrough ==
  PatchHitReturned =>
    \A m \in BlockAddrs(calls[1].msg) :
      LET S == PreShadow(calls[1], calls[1].msg.deviceId, m)
          stored == cache[createKey(calls[1].msg.deviceId, m)]
      IN /\ Len(HitEvents(m)) = Len(HitItems(m))
         /\ PassedThrough(SelectSeq(HitEvents(m),
                                    LAMBDA e : e.payload.value.action = "null"),
                          NoAction(HitItems(m)))
         /\ \A i \in 1..Len(HitItems(m)) :
              HitItems(m)[i].action = "null" =>
                HitEvents(m)[i].payload.value.action = "null"
         /\ AsMapping(stored) = Applied(S, Acting(HitItems(m)))
         /\ (Acting(HitItems(m)) = <<>> => stored = S)

\* the shadow holds a tag and the message carries one item without an action
\* for another position, next to an item that attaches
C34_Witness ==
  /\ PatchHitReturned
  /\ \E m \in BlockAddrs(calls[1].msg) :
       /\ PreShadow(calls[1], calls[1].msg.deviceId, m) # <<>>
       /\ NoAction(HitItems(m)) # <<>>
       /\ Acting(HitItems(m)) # <<>>
       /\ WithAction("null") # <<>>


-----------------------------------------------------------------------------
(* The message handler and overlapping calls, checked under SpecBus *)

\* The events of a sequence of data.normalized emissions, in emission order
RECURSIVE EventsOf(_)
EventsOf(emissions) ==
  IF emissions = <<>> THEN <<>>
  ELSE Head(emissions).batch \o EventsOf(Tail(emissions))

\* The emissions of handlers whose message took the diff path
DiffEmissions ==
  SelectSeq(bus.emitted, LAMBDA e : IsDiff(bus.arrivals[e.arrival]))

\* The SYS_RFID_EVENT events emitted so far by diff-path calls for a position
DiffEventsAt(deviceId, modAddr, uPos) ==
  SelectSeq(EventsOf(DiffEmissions),
            LAMBDA e : /\ e.type = "SYS_RFID_EVENT"
                       /\ e.identity.deviceId = deviceId
                       /\ e.identity.modAddr = modAddr
                       /\ e.identity.sensorAddr = uPos)

Alternate(events) ==
  \A i \in 1..Len(events) :
    events[i].payload.value.action =
      IF i % 2 = 1 THEN "attached" ELSE "detached"

OnlyDiffArrivals == \A n \in 1..Len(bus.arrivals) : IsDiff(bus.arrivals[n])

(* C35: for each (deviceId, modAddr, uPos), the SYS_RFID_EVENT events that
   diff-path calls emit over any sequence of calls, overlapping or not,
   alternate between attached and detached, starting with attached. *)
C35_Alternate ==
  OnlyDiffArrivals =>
    \A d \in DeviceIds, m \in ModAddrs :
      \A u \in UPosOf(m) : Alternate(DiffEventsAt(d, m, u))


\* The Shadow Store after the calls for these messages are made one after the
\* other, each awaited before the next is made
RECURSIVE OneAfterTheOther(_, _)
OneAfterTheOther(msgs, c) ==
  IF msgs = <<>> THEN c
  ELSE OneAfterTheOther(Tail(msgs), Alone(Head(msgs), c).cache)

\* The handler of this arrival emitted a batch that holds a snapshot: its
\* patch-path call found the module's shadow
FoundShadow(arrival) ==
  \E i \in 1..Len(bus.emitted) :
    /\ bus.emitted[i].arrival = arrival
    /\ \E j \in 1..Len(bus.emitted[i].batch) :
         bus.emitted[i].batch[j].type = "SYS_RFID_SNAPSHOT"

\* A diff-path call has written the shadow of module 1 and two patch-path
\* calls for the module, made after it, have found a shadow and returned
TwoPatchesDone ==
  /\ Len(bus.arrivals) = 3
  /\ NoCallInProgress
  /\ IsDiff(bus.arrivals[1]) /\ bus.arrivals[1].modAddr = 1
  /\ IsPatch(bus.arrivals[2]) /\ IsPatch(bus.arrivals[3])
  /\ FoundShadow(2) /\ FoundShadow(3)

(* C36: two overlapping patch-path calls for the same module whose shadow
   exists leave, after both have returned, the stored shadow that running them
   one after the other in arrival order leaves: no attach or detach is lost. *)
C36_NoLostPatch ==
  TwoPatchesDone =>
    LET key == createKey(bus.arrivals[1].deviceId, 1)
    IN /\ key \in DOMAIN cache
       /\ AsMapping(cache[key]) =
            AsMapping(OneAfterTheOther(bus.arrivals, <<>>)[key])


\* The SYS_RFID_SNAPSHOT events returned so far for a module, oldest first
SnapshotsOf(deviceId, modAddr) ==
  SelectSeq(EventsOf(bus.emitted),
            LAMBDA e : /\ e.type = "SYS_RFID_SNAPSHOT"
                       /\ e.identity.deviceId = deviceId
                       /\ e.identity.modAddr = modAddr)

(* C37: whenever no normalize call is in progress, for every key that has a
   Shadow Store entry, the items of the most recently returned
   SYS_RFID_SNAPSHOT for that key are exactly the positions, tag ids and alarm
   statuses of the stored entry. *)
C37_SnapshotIsStore ==
  NoCallInProgress =>
    \A d \in DeviceIds, m \in ModAddrs :
      createKey(d, m) \in DOMAIN cache =>
        LET snaps == SnapshotsOf(d, m)
        IN /\ snaps # <<>>
           /\ SnapshotMapping(snaps[Len(snaps)]) = AsMapping(cache[createKey(d, m)])


(* C39: the application emits the data.normalized batches in the order in
   which the mqtt.message events arrived, also when the normalize call of a
   later message has fewer suspension points than that of an earlier message
   which is still in progress. *)
C39_ArrivalOrder ==
  \A i, j \in 1..Len(bus.emitted) :
    i < j => bus.emitted[i].arrival < bus.emitted[j].arrival

-----------------------------------------------------------------------------
(* The Map a caller obtained from get, checked under SpecShadow *)

(* C38: a mapping returned by get is never changed afterwards, by any Shadow
   Store operation (set, clear, clearAll) or by any normalize call: the engine
   only reads or copies the mappings it obtains, and no stored entry is
   mutated in place. *)
C38_ObtainedUnchanged ==
  IsSome(obtained) => Val(obtained).map = Val(obtained).returned

\* the caller holds a Map with a tag in it, and since get returned it a
\* patch-path call has found the module's shadow and stored another mapping
C38_Witness ==
  /\ IsSome(obtained)
  /\ Val(obtained).returned # <<>>
  /\ ~Val(obtained).stored
  /\ Returned(calls[1]) /\ IsPatch(calls[1].msg)
  /\ HolderKey(obtained) \in DOMAIN cache
  /\ cache[HolderKey(obtained)] # Val(obtained).returned


====
